---- MODULE Spec2Model ----
(***************************************************************************)
(* Model of the orchestration core of adb-bluestacks-automation:           *)
(* Scheduler (modules/scheduler.py), ActionExecutor                        *)
(* (modules/action_executor.py) and DeviceManager                          *)
(* (modules/device_manager.py), as driven by main.py and the CLI of        *)
(* modules/console_ui.py.                                                  *)
(*                                                                         *)
(* The program is a single asyncio event loop.  A task runs without        *)
(* interruption until it awaits something that really suspends it: a       *)
(* sleep, a bridge child process, a gather, or the executor's resume_event *)
(* while it is cleared.  Script handlers and hooks are plain synchronous   *)
(* calls.  Every action below is one such uninterrupted stretch of a task, *)
(* or one program point of a device run while that run holds the loop.     *)
(***************************************************************************)
EXTENDS Integers, Sequences, FiniteSets, TLC

(***************************************************************************)
(* Configuration and inputs                                                *)
(***************************************************************************)
\* The device identifiers a roster file may name.
Devices == {"d1", "d2"}

\* scheduler.max_threads of the configuration.
max_threads == 1

\* scheduler.run_minutes (the default of Scheduler.__init__).
run_minutes == {5, 25, 45}

\* scheduler.thread_delay, seconds slept after each batch is spawned.
thread_delay == 1

\* Number of batch tasks that may exist at once (task slots of the model).
MaxBatchTasks == 2

BIds == 1..MaxBatchTasks

\* The scripts of the store, in discovery order; "zz" names no script file.
ConfigNames == <<"A", "B", "C", "E", "H", "M", "U">>

RequestNames == {"A", "zz"}

\* The script every script of the store is a variant of: two steps, no
\* enable mask, no successor, both hooks.
PlainScript ==
  [steps |-> << [name |-> "s1", action |-> "act1"],
                [name |-> "s2", action |-> "act2"] >>,
   enabled_steps |-> [n \in {} |-> TRUE],
   handlers |-> {"act1", "act2"},
   next_config |-> "",
   has_initialize |-> TRUE,
   has_finalize |-> TRUE]

\* One script: its config dictionary and the attributes of its module.
\* A is plain; B has one step; C names B as its successor; E has an empty
\* steps list; H has three steps, the second with an action name that is no
\* callable attribute of its module; M has three steps, of which the mask names s1 (true) and s2
\* (false); U names a successor that has no script file.
Script(c) ==
  CASE c = "B" -> [PlainScript EXCEPT !.steps = <<[name |-> "s1", action |-> "act1"]>>]
    [] c = "C" -> [PlainScript EXCEPT !.steps = <<[name |-> "s1", action |-> "act1"]>>,
                                      !.next_config = "B"]
    [] c = "E" -> [PlainScript EXCEPT !.steps = <<>>]
    [] c = "H" -> [PlainScript EXCEPT
                     !.steps = << [name |-> "s1", action |-> "act1"],
                                  [name |-> "s2", action |-> "data"],
                                  [name |-> "s3", action |-> "act1"] >>]
    [] c = "M" -> [PlainScript EXCEPT
                     !.steps = << [name |-> "s1", action |-> "act1"],
                                  [name |-> "s2", action |-> "act2"],
                                  [name |-> "s3", action |-> "act1"] >>,
                     !.enabled_steps = [n \in {"s1", "s2"} |-> n = "s1"]]
    [] c = "U" -> [PlainScript EXCEPT !.steps = <<[name |-> "s1", action |-> "act1"]>>,
                                      !.next_config = "nope"]
    [] OTHER -> PlainScript

\* What a hook or a handler call can do: return a true value, a false one, or raise.
Outcomes == {"true", "false", "raise"}

\* Minutes datetime.now() may show at a sample when the clock is not tracked.
SampleMinutes == {4, 5}

None == "None"

VARIABLES
  scheduler,      \* Scheduler.running, .paused, .scheduler_task
  executor,       \* the ActionExecutor: its flags, resume_event and run bookkeeping
  devices,        \* DeviceManager.devices: the record of each device
  running_tasks,  \* Scheduler.running_tasks: the batch tasks not yet done
  batch,          \* the batch tasks (_run_batch / _run_specific_config_batch)
  dtask,          \* the device tasks (_run_device_automation) of each batch task
  caller,         \* the coroutine calling the Scheduler's public operations (main / CLI)
  trigger,        \* the trigger task (_scheduler_task)
  now,            \* wall clock, seconds within the hour
  roster,         \* the keys of DeviceManager.devices, in the order of the roster file
  health,         \* the health task (DeviceManager._check_devices_status_task)
  action,         \* a call of ActionExecutor.execute_action by a client of the executor
  adb,            \* a call of the bridge client (ADBManager) and its child processes
  config,         \* what is read at start-up: devices.batch_size, the lines of devices_file
  loaded_config,  \* the CONFIG dict of the script file validate_config is given
  matching,       \* a call of ImageProcessor.find_all_templates
  hist            \* history: what has been observed so far

vars == <<scheduler, executor, devices, running_tasks, batch, dtask, caller, trigger,
          now, roster, adb, config, loaded_config, matching, health, action, hist>>

\* devices.batch_size of the configuration (DeviceManager.batch_size).
batch_size == config.batch_size

Min(a, b) == IF a < b THEN a ELSE b

(***************************************************************************)
(* DeviceManager.get_device_batches: consecutive slices of the roster.     *)
(* Batch indices are 1-based here (0-based in the source).                 *)
(***************************************************************************)
\* Slices without the short batch at the end of the roster.
Slices_full_only(ids) ==
  [n \in 1..(Len(ids) \div batch_size) |->
     SubSeq(ids, (n - 1) * batch_size + 1, n * batch_size)]

Slices(ids) ==
  [n \in 1..((Len(ids) + batch_size - 1) \div batch_size) |->
     SubSeq(ids, (n - 1) * batch_size + 1, Min(n * batch_size, Len(ids)))]

get_device_batches == Slices(roster)

NumBatches == Len(get_device_batches)

\* ConfigLoader.validate_config: the script loads and has the required fields.
validate_config(c) == \E n \in 1..Len(ConfigNames) : ConfigNames[n] = c


\* connection_attempts is tracked up to this value.
MaxAttempts == 1

(***************************************************************************)
(* Initial state: after ADBAutomation.initialize() has built the objects   *)
(* and DeviceManager.load_devices() has read the roster.                   *)
(***************************************************************************)
NoBatch == [st |-> "free", idx |-> 0, cfg |-> None, k |-> 0, cancel |-> FALSE]

DoneBatch == [NoBatch EXCEPT !.st = "done"]

\* A device task: where it is (st), its script, step index and success flag, a
\* pending cancellation, and what its execute_config call has done so far: the
\* outcome of initialize, the arguments finalize was called with, the steps
\* whose handler ran (calls) and returned a true value (oks), the steps the
\* mask skipped, what execute_config returned and on which path; and the
\* earlier execute_config calls of this task with what they returned (chain).
NoTask ==
  [st |-> "none", cfg |-> None, i |-> 0, success |-> TRUE, cancel |-> FALSE,
   woken |-> FALSE, init |-> None, fin |-> <<>>, calls |-> {}, ret |-> None,
   end |-> None, oks |-> {}, skipped |-> {}, chain |-> <<>>]

DoneTask == [NoTask EXCEPT !.st = "done"]

\* ret is what the last connect_device, disconnect_device, run_automation or
\* run_specific_config call returned.
IdleCaller ==
  [op |-> "idle", pc |-> "", i |-> 0, cfg |-> None, wait |-> {}, dev |-> None,
   ret |-> None]

NoTrigger == [st |-> "none", cancel |-> FALSE, i |-> 0, wake |-> 0]

\* config.get('connect_timeout', 15) and config.get('status_check_interval', 60),
\* here both one second.
connect_timeout == 1

status_check_interval == 1

\* The health task: not started (auto_reconnect off), waiting for its next
\* round, or inside connect_device for the head of its reconnect queue.
\* wake is the time its sleep ends, when the clock is tracked.
NoHealth == [st |-> "off", queue |-> <<>>, wake |-> 0]

WaitingHealth == [st |-> "wait", queue |-> <<>>, wake |-> 0]

\* An execute_action call: where it is, its device, the action's type, whether
\* the field that type requires is given, the DeviceManager operation it is in,
\* whether it has set the action tag, and what it returned; for wait_image
\* also start_time, the polls begun, whether the last poll matched, whether
\* resume_event was set while it waited at the gate, and when its sleep ends.
NoAction ==
  [st |-> "none", dev |-> None, type |-> None, arg |-> FALSE, stage |-> None,
   tagged |-> FALSE, ret |-> FALSE, start |-> 0, polls |-> 0, matched |-> FALSE,
   woken |-> FALSE, wake |-> 0]

\* A call of the bridge client: the operation, its device, where it is, the command of a
\* composite operation it is at, the attempt of its retry loop, whether the
\* child process it awaits is alive, how many children it has stopped awaiting
\* without killing them, whether screencap has created the remote file, whether
\* the rm of that file has been issued, how the last attempt of the current
\* command ended, and the result.
NoAdb ==
  [op |-> "none", dev |-> None, pc |-> "none", stage |-> None, attempt |-> 0, child |-> FALSE,
   orphans |-> 0, remote |-> FALSE, rm |-> FALSE, last |-> None, ret |-> None]

\* The state after construction with roster ids, batch size bs, the clock at t
\* (tracked or not) and the health task h.
\* What validate_config looks at in a CONFIG dict: for each of the three fields,
\* whether it is missing and otherwise the type of its value.
Values == {"missing", "empty list", "list", "dict", "other"}

ConfigDicts == [actions : Values, steps : Values, enabled_steps : Values]

\* The CONFIG dict of the scripts of the store.
WellFormed == [actions |-> "list", steps |-> "list", enabled_steps |-> "dict"]

\* A line of the roster file after strip(): blank, a comment, or text that
\* split(':') cuts into one part (a bare serial), two (ip:port) or more
\* (ip:port:name). id stands for the text before the name.
DeviceLine(kind, d) == [kind |-> kind, id |-> d]

\* The roster file that lists the devices ids as ip:port lines.
FileOf(ids) == [n \in 1..Len(ids) |-> DeviceLine("ip:port", ids[n])]

\* No find_all_templates call: no score map, nothing found.
NoMatching == [st |-> "none", result |-> <<>>, found |-> <<>>]

\* scheduler.enabled of the configuration.
enabled == config.enabled

\* The state after construction, with scheduler.enabled = en.
InitApp(en, file, ids, bs, t, timed, h, cfg) ==
  /\ matching = NoMatching
  /\ roster = ids
  /\ config = [batch_size |-> bs, devices_file |-> file, enabled |-> en]
  /\ loaded_config = cfg
  /\ scheduler = [running |-> FALSE, paused |-> FALSE, scheduler_task |-> FALSE]
  /\ executor = [exists |-> FALSE, running |-> FALSE, paused |-> FALSE,
                 resume_event |-> TRUE, running_devices |-> {},
                 running_configs |-> [d \in Devices |-> None]]
  /\ devices = [d \in Devices \cup {ids[n] : n \in 1..Len(ids)} |->
                  [connected |-> FALSE, status |-> "not connected",
                   current_action |-> None,
                   connection_attempts |-> 0, last_connection_attempt |-> 0]]
  /\ running_tasks = {}
  /\ batch = [b \in BIds |-> NoBatch]
  /\ dtask = [b \in BIds |-> [d \in Devices |-> NoTask]]
  /\ caller = IdleCaller
  /\ trigger = NoTrigger
  /\ now = t
  /\ health = h
  /\ action = NoAction
  /\ adb = NoAdb
  /\ hist = [stopped |-> FALSE, auto |-> {}, timed |-> timed, stale |-> {}]

\* The same with the trigger enabled (the default of the configuration).
InitFiles(file, ids, bs, t, timed, h, cfg) == InitApp(TRUE, file, ids, bs, t, timed, h, cfg)

InitLoaded(ids, bs, t, timed, h, cfg) == InitFiles(FileOf(ids), ids, bs, t, timed, h, cfg)

InitSized(ids, bs, t, timed, h) == InitLoaded(ids, bs, t, timed, h, WellFormed)

InitWith(ids, t, timed, h) == InitSized(ids, 1, t, timed, h)

Init == InitWith(<<"d1">>, 0, FALSE, NoHealth)

(***************************************************************************)
(* The event loop: a device run between two suspension points holds the    *)
(* loop; nothing else runs meanwhile.                                      *)
(***************************************************************************)
RunningPcs == {"init", "loop", "step", "handler", "stepEnd", "after", "finalize", "ret"}

Idle == \A b \in BIds, d \in Devices : dtask[b][d].st \notin RunningPcs

\* A task slot can be reused once its batch task and its device tasks are done
\* and nobody awaits it any more.
IsFree(b) ==
  /\ batch[b].st \in {"free", "done"}
  /\ \A d \in Devices : dtask[b][d].st \in {"none", "done"}
  /\ b \notin caller.wait

FreeId == CHOOSE b \in BIds : IsFree(b) /\ \A c \in BIds : IsFree(c) => b <= c

\* asyncio.create_task(self._run_batch(i, batch, configs)) or
\* asyncio.create_task(self._run_specific_config_batch(i, batch, name)),
\* then self.running_tasks.add(task).
SpawnBatch(n, c) ==
  /\ \E b \in BIds : IsFree(b)
  /\ batch' = [batch EXCEPT ![FreeId] =
                 [st |-> "new", idx |-> n, cfg |-> c, k |-> 0, cancel |-> FALSE]]
  /\ dtask' = [dtask EXCEPT ![FreeId] = [d \in Devices |-> NoTask]]
  /\ running_tasks' = running_tasks \cup {FreeId}

\* A timer set for time w has expired (only when the clock is tracked).
Due(w) == hist.timed => now >= w

(***************************************************************************)
(* Scheduler.start                                                         *)
(***************************************************************************)
\* start without the test of self.running in lines 103-105.
start_unguarded ==
  /\ Idle /\ caller.op = "idle"
  /\ executor' = [executor EXCEPT !.exists = TRUE]
  /\ scheduler' = [running |-> TRUE, paused |-> FALSE,
                   scheduler_task |-> IF enabled THEN TRUE ELSE scheduler.scheduler_task]
  /\ trigger' = IF enabled
                THEN [st |-> "new", cancel |-> FALSE, i |-> 0, wake |-> now]
                ELSE trigger
  /\ hist' = [hist EXCEPT !.stopped = FALSE]
  /\ UNCHANGED <<devices, running_tasks, batch, dtask, caller, now, roster, adb, config, loaded_config, matching, health, action>>

start ==
  /\ Idle /\ caller.op = "idle"
  /\ IF scheduler.running
     THEN UNCHANGED <<scheduler, executor, trigger, hist>>
     ELSE /\ executor' = [executor EXCEPT !.exists = TRUE]
          /\ scheduler' = [running |-> TRUE, paused |-> FALSE,
                           scheduler_task |-> IF enabled THEN TRUE
                                              ELSE scheduler.scheduler_task]
          /\ trigger' = IF enabled
                        THEN [st |-> "new", cancel |-> FALSE, i |-> 0, wake |-> now]
                        ELSE trigger
          /\ hist' = [hist EXCEPT !.stopped = FALSE]
  /\ UNCHANGED <<devices, running_tasks, batch, dtask, caller, now, roster, adb, config, loaded_config, matching, health, action>>

(***************************************************************************)
(* Scheduler.stop                                                          *)
(***************************************************************************)
\* Lines 152-164: wait for the tasks that are in running_tasks now, then clear it.
StopAwaitTasks ==
  IF running_tasks # {}
  THEN /\ caller' = [IdleCaller EXCEPT !.op = "stop", !.pc = "gather",
                                       !.wait = running_tasks]
       /\ UNCHANGED <<running_tasks, hist>>
  ELSE /\ caller' = IdleCaller
       /\ running_tasks' = {}
       /\ hist' = [hist EXCEPT !.stopped = TRUE]

\* Lines 130-150: clear the flags, cancel the trigger task and await it.
stop ==
  /\ Idle /\ caller.op = "idle"
  /\ IF ~scheduler.running
     THEN UNCHANGED <<scheduler, trigger, caller, running_tasks, hist>>
     ELSE IF scheduler.scheduler_task
          THEN /\ scheduler' = [scheduler EXCEPT !.running = FALSE, !.paused = FALSE]
               /\ trigger' = [trigger EXCEPT !.cancel = TRUE]
               /\ caller' = [IdleCaller EXCEPT !.op = "stop", !.pc = "trigger"]
               /\ UNCHANGED <<running_tasks, hist>>
          ELSE /\ scheduler' = [scheduler EXCEPT !.running = FALSE, !.paused = FALSE]
               /\ StopAwaitTasks
               /\ UNCHANGED trigger
  /\ UNCHANGED <<executor, devices, batch, dtask, now, roster, adb, config, loaded_config, matching, health, action>>

\* The trigger task has ended: self.scheduler_task = None, then lines 152-164.
stop_after_trigger ==
  /\ Idle /\ caller.op = "stop" /\ caller.pc = "trigger"
  /\ trigger.st = "none"
  /\ scheduler' = [scheduler EXCEPT !.scheduler_task = FALSE]
  /\ StopAwaitTasks
  /\ UNCHANGED <<executor, devices, batch, dtask, trigger, now, roster, adb, config, loaded_config, matching, health, action>>

\* asyncio.gather(*remaining_tasks) has completed: running_tasks.clear().
stop_after_gather ==
  /\ Idle /\ caller.op = "stop" /\ caller.pc = "gather"
  /\ \A b \in caller.wait : batch[b].st = "done"
  /\ caller' = IdleCaller
  /\ running_tasks' = {}
  /\ hist' = [hist EXCEPT !.stopped = TRUE]
  /\ UNCHANGED <<scheduler, executor, devices, batch, dtask, trigger, now, roster, adb, config, loaded_config, matching,
                 health, action>>


(***************************************************************************)
(* asyncio primitives used by the operations below                         *)
(***************************************************************************)
\* asyncio.Event.set(): every task waiting on resume_event is woken.
EventSet(dt) ==
  [b \in BIds |-> [d \in Devices |->
     IF dt[b][d].st = "gate" THEN [dt[b][d] EXCEPT !.woken = TRUE] ELSE dt[b][d]]]

\* The batch tasks in S are cancelled (Task.cancel): a task that has not ended
\* gets the request; awaiting its gather, it passes the request on to the
\* device tasks it gathers.
\* resume_event.set() as seen by a wait_image poll waiting at the gate.
ActionEventSet ==
  IF action.st = "gate" THEN [action EXCEPT !.woken = TRUE] ELSE action

CancelTasks(S, dt) ==
  [b \in BIds |-> [d \in Devices |->
     IF b \in S /\ batch[b].st = "gather" /\ dt[b][d].st \notin {"none", "done"}
     THEN [dt[b][d] EXCEPT !.cancel = TRUE] ELSE dt[b][d]]]

CancelBatches(S) ==
  [b \in BIds |->
     IF b \in S /\ batch[b].st \in {"new", "connect", "info", "gather"}
     THEN [batch[b] EXCEPT !.cancel = TRUE] ELSE batch[b]]

\* DeviceManager.update_device_action(device_id, action)
update_device_action(devs, d, a) == [devs EXCEPT ![d].current_action = a]

\* A sleep started now for x seconds ends at this time (when the clock is tracked).
After(x) == IF hist.timed THEN now + x ELSE 0

(***************************************************************************)
(* Scheduler.pause_automation / resume_automation / stop_automation        *)
(***************************************************************************)
\* ActionExecutor.pause_execution, then Scheduler.pause.
pause_automation ==
  /\ Idle /\ caller.op = "idle"
  /\ executor' = IF executor.exists /\ executor.running
                 THEN [executor EXCEPT !.paused = TRUE, !.resume_event = FALSE]
                 ELSE executor
  /\ scheduler' = IF scheduler.running /\ ~scheduler.paused
                  THEN [scheduler EXCEPT !.paused = TRUE]
                  ELSE scheduler
  /\ UNCHANGED <<devices, running_tasks, batch, dtask, caller, trigger, now, roster, adb, config, loaded_config, matching,
                 health, action, hist>>

\* ActionExecutor.resume_execution, then Scheduler.resume.
resume_automation ==
  /\ Idle /\ caller.op = "idle"
  /\ IF executor.exists /\ executor.running /\ executor.paused
     THEN /\ executor' = [executor EXCEPT !.paused = FALSE, !.resume_event = TRUE]
          /\ dtask' = EventSet(dtask)
          /\ action' = ActionEventSet
     ELSE UNCHANGED <<executor, dtask, action>>
  /\ scheduler' = IF scheduler.running /\ scheduler.paused
                  THEN [scheduler EXCEPT !.paused = FALSE]
                  ELSE scheduler
  /\ UNCHANGED <<devices, running_tasks, batch, caller, trigger, now, roster, adb, config, loaded_config, matching, health,
                 hist>>

\* ActionExecutor.stop_execution: clear the flags, open the gate, clear the
\* action tag of every device in running_devices.
stop_execution_devices ==
  [d \in Devices |->
     IF d \in executor.running_devices
     THEN [devices[d] EXCEPT !.current_action = None] ELSE devices[d]]

\* Lines 487-503: stop the executor, cancel every task of running_tasks, await them.
stop_automation ==
  /\ Idle /\ caller.op = "idle"
  /\ IF executor.exists
     THEN /\ executor' = [executor EXCEPT !.running = FALSE, !.paused = FALSE,
                                          !.resume_event = TRUE]
          /\ devices' = stop_execution_devices
          /\ dtask' = CancelTasks(running_tasks, EventSet(dtask))
          /\ action' = ActionEventSet
     ELSE /\ UNCHANGED <<executor, devices, action>>
          /\ dtask' = CancelTasks(running_tasks, dtask)
  /\ batch' = CancelBatches(running_tasks)
  /\ IF running_tasks # {}
     THEN /\ caller' = [IdleCaller EXCEPT !.op = "stop_automation", !.pc = "gather",
                                          !.wait = running_tasks]
          /\ UNCHANGED running_tasks
     ELSE /\ caller' = IdleCaller
          /\ running_tasks' = {}
  /\ UNCHANGED <<scheduler, trigger, now, roster, adb, config, loaded_config, matching, health, hist>>

\* Lines 505-509: the gather has completed: running_tasks.clear().
stop_automation_after_gather ==
  /\ Idle /\ caller.op = "stop_automation" /\ caller.pc = "gather"
  /\ \A b \in caller.wait : batch[b].st = "done"
  /\ caller' = IdleCaller
  /\ running_tasks' = {}
  /\ UNCHANGED <<scheduler, executor, devices, batch, dtask, trigger, now, roster, adb, config, loaded_config, matching,
                 health, action, hist>>

(***************************************************************************)
(* Scheduler.run_automation / run_specific_config                          *)
(***************************************************************************)
\* load_all_configs() of the store.
load_all_configs == ConfigNames

\* Lines 241-263: the checks run_automation makes before it spawns anything.
RunAutomationOk ==
  /\ scheduler.running
  /\ ~scheduler.paused
  /\ Len(load_all_configs) > 0
  /\ NumBatches > 0

\* Lines 400-409: the checks run_specific_config makes before it spawns anything.
RunSpecificOk(c) ==
  /\ validate_config(c)
  /\ NumBatches > 0

\* run_automation called by main (run_on_start) or by the CLI's `start`.
run_automation ==
  /\ Idle /\ caller.op = "idle"
  /\ IF RunAutomationOk
     THEN /\ SpawnBatch(1, None)
          /\ caller' = [IdleCaller EXCEPT !.op = "run", !.pc = "sleep", !.i = 1]
     ELSE /\ caller' = [IdleCaller EXCEPT !.ret = "false"]
          /\ UNCHANGED <<running_tasks, batch, dtask>>
  /\ UNCHANGED <<scheduler, executor, devices, trigger, now, roster, adb, config, loaded_config, matching, health, action, hist>>

\* run_specific_config(name) called by main (--run) or by the CLI's `start name`.
run_specific_config(c) ==
  /\ Idle /\ caller.op = "idle"
  /\ IF RunSpecificOk(c)
     THEN /\ SpawnBatch(1, c)
          /\ caller' = [IdleCaller EXCEPT !.op = "run", !.pc = "sleep", !.i = 1,
                                          !.cfg = c]
     ELSE /\ caller' = [IdleCaller EXCEPT !.ret = "false"]
          /\ UNCHANGED <<running_tasks, batch, dtask>>
  /\ UNCHANGED <<scheduler, executor, devices, trigger, now, roster, adb, config, loaded_config, matching, health, action, hist>>

\* The sleep after a batch was spawned has ended: spawn the next batch and sleep
\* again, or return true.
run_wake ==
  /\ Idle /\ caller.op = "run" /\ caller.pc = "sleep"
  /\ IF caller.i < NumBatches
     THEN /\ SpawnBatch(caller.i + 1, caller.cfg)
          /\ caller' = [caller EXCEPT !.i = caller.i + 1]
     ELSE /\ caller' = [IdleCaller EXCEPT !.ret = "true"]
          /\ UNCHANGED <<running_tasks, batch, dtask>>
  /\ UNCHANGED <<scheduler, executor, devices, trigger, now, roster, adb, config, loaded_config, matching, health, action, hist>>

(***************************************************************************)
(* Scheduler._scheduler_task: the trigger task                             *)
(***************************************************************************)
MinuteOf(t) == (t \div 60) % 60

\* Lines 217-220: the minute test of the trigger.
Fires(m) == m \in run_minutes /\ ((m - 1) % 60) \notin run_minutes

\* One iteration of the loop, with datetime.now().minute = m.
trigger_sample(m) ==
  /\ Idle /\ trigger.st \in {"new", "sleep"} /\ ~trigger.cancel
  /\ Due(trigger.wake)
  /\ IF ~scheduler.running
     THEN /\ trigger' = NoTrigger
          /\ UNCHANGED <<running_tasks, batch, dtask, hist>>
     ELSE IF scheduler.paused
     THEN /\ trigger' = [trigger EXCEPT !.st = "sleep", !.wake = After(1)]
          /\ UNCHANGED <<running_tasks, batch, dtask, hist>>
     ELSE IF Fires(m)
     THEN /\ hist' = [hist EXCEPT !.auto = IF hist.timed THEN @ \cup {now} ELSE @]
          /\ IF RunAutomationOk
             THEN /\ SpawnBatch(1, None)
                  /\ trigger' = [trigger EXCEPT !.st = "run", !.i = 1,
                                                !.wake = After(thread_delay)]
             ELSE /\ trigger' = [trigger EXCEPT !.st = "sleep", !.wake = After(10)]
                  /\ UNCHANGED <<running_tasks, batch, dtask>>
     ELSE /\ trigger' = [trigger EXCEPT !.st = "sleep", !.wake = After(10)]
          /\ UNCHANGED <<running_tasks, batch, dtask, hist>>
  /\ UNCHANGED <<scheduler, executor, devices, caller, now, roster, adb, config, loaded_config, matching, health, action>>

\* Inside the trigger's run_automation: the sleep after a batch has ended.
trigger_run_wake ==
  /\ Idle /\ trigger.st = "run" /\ ~trigger.cancel
  /\ Due(trigger.wake)
  /\ IF trigger.i < NumBatches
     THEN /\ SpawnBatch(trigger.i + 1, None)
          /\ trigger' = [trigger EXCEPT !.i = trigger.i + 1,
                                        !.wake = After(thread_delay)]
     ELSE /\ trigger' = [trigger EXCEPT !.st = "sleep", !.i = 0, !.wake = After(10)]
          /\ UNCHANGED <<running_tasks, batch, dtask>>
  /\ UNCHANGED <<scheduler, executor, devices, caller, now, roster, adb, config, loaded_config, matching, health, action, hist>>

\* The cancelled trigger task ends (CancelledError at its sleep, lines 227-228).
trigger_cancelled ==
  /\ Idle /\ trigger.st # "none" /\ trigger.cancel
  /\ trigger' = NoTrigger
  /\ UNCHANGED <<scheduler, executor, devices, running_tasks, batch, dtask, caller,
                 now, roster, adb, config, loaded_config, matching, health, action, hist>>


(***************************************************************************)
(* Scheduler._run_batch / _run_specific_config_batch: a batch task         *)
(***************************************************************************)
BatchDevices(b) == get_device_batches[batch[b].idx]

\* Lines 304-309 of _run_batch: the first script, in discovery order, that validates.
first_config ==
  IF \E n \in 1..Len(ConfigNames) : validate_config(ConfigNames[n])
  THEN ConfigNames[CHOOSE n \in 1..Len(ConfigNames) :
                     /\ validate_config(ConfigNames[n])
                     /\ \A m \in 1..(n - 1) : ~validate_config(ConfigNames[m])]
  ELSE None

\* BatchConfig that ignores the name run_specific_config was given.
BatchConfig_first(b) == first_config

\* The script a batch task gives to its device tasks.
BatchConfig(b) == IF batch[b].cfg = None THEN first_config ELSE batch[b].cfg

\* time.time() is read off the clock in the specifications that track the clock
\* and run the health task; elsewhere a stamp only tells never from once.
Stamped == hist.timed /\ health.st # "off"

\* DeviceManager.connect_device, lines 267-270: stamp and count the attempt, then
\* call the bridge. The stamp is kept as 0 (never) or 1 (some time ago).
\* The connect_device calls in flight on device d: a batch task inside
\* connect_batch, the CLI's `connect`, the health task's reconnect.
Connecting(d) ==
  \/ \E b \in BIds : /\ batch[b].st \in {"connect", "info"}
                      /\ batch[b].k \in 1..Len(roster)
                      /\ d = BatchDevices(b)[batch[b].k]
  \/ caller.op = "connect" /\ caller.dev = d
  \/ health.st \in {"connect", "info"} /\ health.queue # <<>> /\ Head(health.queue) = d

\* History: hist.stale holds the devices that were marked disconnected while a
\* connect_device call on them was in flight, with no connect issued since.
\* The records of D are marked disconnected.
Overtaken(h, D) == [h EXCEPT !.stale = @ \cup {d \in D : Connecting(d)}]

\* A connect_device call on the devices of D begins or ends.
Settled(h, D) == [h EXCEPT !.stale = @ \ D]

\* The head of a queue of devices, as a set.
HeadSet(q) == IF q = <<>> THEN {} ELSE {Head(q)}

\* The device connect_batch turns to next, as a set.
BatchBegins(b) ==
  IF batch[b].k < Len(BatchDevices(b)) THEN {BatchDevices(b)[batch[b].k + 1]} ELSE {}

\* The device connect_batch is connecting.
BatchCurrent(b) == BatchDevices(b)[batch[b].k]

ConnectBegin(devs, d) ==
  [devs EXCEPT ![d].connection_attempts = Min(@ + 1, MaxAttempts),
               ![d].last_connection_attempt = IF Stamped THEN now ELSE 1]

\* DeviceManager.connect_device, lines 283-286: the bridge connected.
ConnectSucceed(devs, d) ==
  [devs EXCEPT ![d].connected = TRUE, ![d].status = "connected"]

\* DeviceManager.connect_device, lines 297-299: the bridge did not connect.
ConnectFail(devs, d) ==
  [devs EXCEPT ![d].connected = FALSE, ![d].status = "connect error"]

\* asyncio.create_task(self._run_device_automation(device_id, config)).
NewTask(c) == [NoTask EXCEPT !.st = "new", !.cfg = c]

\* connect_batch goes on to its next device; after the last one the batch task
\* spawns a device task per connected device and gathers them (lines 320-339).
BatchNext(b, devs) ==
  LET ids == BatchDevices(b)
      k == batch[b].k
      conn == {ids[n] : n \in {m \in 1..Len(ids) : devs[ids[m]].connected}}
  IN IF k < Len(ids)
     THEN /\ devices' = ConnectBegin(devs, ids[k + 1])
          /\ batch' = [batch EXCEPT ![b].st = "connect", ![b].k = k + 1]
          /\ UNCHANGED <<dtask, running_tasks>>
     ELSE /\ devices' = devs
          /\ dtask' = [dtask EXCEPT ![b] =
                         [d \in Devices |->
                            IF d \in conn THEN NewTask(BatchConfig(b)) ELSE NoTask]]
          /\ IF conn = {}
             THEN /\ batch' = [batch EXCEPT ![b] = DoneBatch]
                  /\ running_tasks' = running_tasks \ {b}
             ELSE /\ batch' = [batch EXCEPT ![b].st = "gather"]
                  /\ UNCHANGED running_tasks

\* The task starts: pick the script (lines 304-313), enter connect_batch and
\* issue the bridge connect for the first device of the batch.
batch_start(b) ==
  /\ Idle /\ batch[b].st = "new" /\ ~batch[b].cancel
  /\ IF BatchConfig(b) = None
     THEN /\ batch' = [batch EXCEPT ![b] = DoneBatch]
          /\ running_tasks' = running_tasks \ {b}
          /\ UNCHANGED <<devices, dtask, hist>>
     ELSE /\ BatchNext(b, devices)
          /\ hist' = Settled(hist, BatchBegins(b))
  /\ UNCHANGED <<scheduler, executor, caller, trigger, now, roster, adb, config, loaded_config, matching, health, action>>

\* The bridge's connect returns: on success get_device_info is issued, on
\* failure the record is marked and connect_batch goes on.
batch_connect_done(b, ok) ==
  /\ Idle /\ batch[b].st = "connect" /\ ~batch[b].cancel
  /\ IF ok
     THEN /\ batch' = [batch EXCEPT ![b].st = "info"]
          /\ UNCHANGED <<devices, dtask, running_tasks, hist>>
     ELSE /\ BatchNext(b, ConnectFail(devices, BatchDevices(b)[batch[b].k]))
          /\ hist' = Settled(hist, {BatchCurrent(b)} \cup BatchBegins(b))
  /\ UNCHANGED <<scheduler, executor, caller, trigger, now, roster, adb, config, loaded_config, matching, health, action>>

\* get_device_info returns: the record becomes connected.
batch_info_done(b) ==
  /\ Idle /\ batch[b].st = "info" /\ ~batch[b].cancel
  /\ BatchNext(b, ConnectSucceed(devices, BatchDevices(b)[batch[b].k]))
  /\ hist' = Settled(hist, {BatchCurrent(b)} \cup BatchBegins(b))
  /\ UNCHANGED <<scheduler, executor, caller, trigger, now, roster, adb, config, loaded_config, matching, health, action>>

\* asyncio.gather(*tasks) completes when every device task has ended.
batch_gather_done(b) ==
  /\ Idle /\ batch[b].st = "gather" /\ ~batch[b].cancel
  /\ \A d \in Devices : dtask[b][d].st \in {"none", "done"}
  /\ batch' = [batch EXCEPT ![b] = DoneBatch]
  /\ running_tasks' = running_tasks \ {b}
  /\ UNCHANGED <<scheduler, executor, devices, dtask, caller, trigger, now, roster, adb, config, loaded_config, matching,
                 health, action, hist>>

\* A cancelled batch task ends at the await it was suspended in (CancelledError
\* is not an Exception: no handler of the batch catches it).
batch_cancelled(b) ==
  /\ Idle /\ batch[b].st \in {"new", "connect", "info", "gather"} /\ batch[b].cancel
  /\ batch' = [batch EXCEPT ![b] = DoneBatch]
  /\ running_tasks' = running_tasks \ {b}
  /\ UNCHANGED <<scheduler, executor, devices, dtask, caller, trigger, now, roster, adb, config, loaded_config, matching,
                 health, action, hist>>


(***************************************************************************)
(* Scheduler._run_device_automation and ActionExecutor.execute_config:     *)
(* a device task                                                           *)
(***************************************************************************)
\* The bookkeeping every return of execute_config does (state_lock sections).
Cleanup(ex, d) ==
  [ex EXCEPT !.running_configs[d] = None, !.running_devices = @ \ {d}]

\* Lines 186-219: after initialize. An empty steps list calls finalize with
\* False and returns False; otherwise the step loop starts.
AfterInit(t) ==
  IF Len(Script(t.cfg).steps) = 0
  THEN [t EXCEPT !.st = "ret",
                 !.fin = IF Script(t.cfg).has_finalize THEN Append(@, FALSE) ELSE @]
  ELSE [t EXCEPT !.st = "loop", !.i = 1, !.success = TRUE]

\* execute_config returns ret to _run_device_automation (scheduler.py line 366).
Return(b, d, t, ret, end) ==
  dtask' = [dtask EXCEPT ![b][d] = [t EXCEPT !.st = "ret", !.ret = ret, !.end = end]]

\* Lines 81-150 of execute_config(device_id, c): mark the run, validate the
\* script, check the connection; then initialize, if the script has one.
EnterConfig(b, d, c) ==
  LET ex1 == [executor EXCEPT !.running = TRUE, !.running_configs[d] = c,
                              !.running_devices = @ \cup {d}]
      o == dtask[b][d]
      t == [NoTask EXCEPT !.st = o.st, !.cfg = c,
                          !.chain = IF o.st = "ret"
                                    THEN Append(o.chain, <<o.cfg, o.ret>>)
                                    ELSE o.chain]
  IN IF ~validate_config(c)
     THEN /\ Return(b, d, t, "false", "invalid")
          /\ executor' = Cleanup(ex1, d)
     ELSE IF ~devices[d].connected
     THEN /\ Return(b, d, t, "false", "not_connected")
          /\ executor' = Cleanup(ex1, d)
     ELSE IF Script(c).has_initialize
     THEN /\ dtask' = [dtask EXCEPT ![b][d] = [t EXCEPT !.st = "init"]]
          /\ executor' = ex1
     ELSE IF AfterInit(t).st = "ret"
     THEN /\ Return(b, d, AfterInit(t), "false", "empty")
          /\ executor' = Cleanup(ex1, d)
     ELSE /\ dtask' = [dtask EXCEPT ![b][d] = AfterInit(t)]
          /\ executor' = ex1

\* A device task that ends without calling execute_config.
dev_start_skips_run(b, d) ==
  /\ Idle /\ dtask[b][d].st = "new"
  /\ dtask' = [dtask EXCEPT ![b][d] = DoneTask]
  /\ UNCHANGED <<scheduler, executor, devices, running_tasks, batch, caller, trigger,
                 now, roster, adb, config, loaded_config, matching, health, action, hist>>

\* The task starts. A task cancelled before its first step never runs; with no
\* executor (start() not called yet) the call raises and returns False.
dev_start(b, d) ==
  /\ Idle /\ dtask[b][d].st = "new"
  /\ IF dtask[b][d].cancel
     THEN /\ dtask' = [dtask EXCEPT ![b][d] = DoneTask]
          /\ UNCHANGED executor
     ELSE IF ~executor.exists
     THEN /\ dtask' = [dtask EXCEPT ![b][d] = DoneTask]
          /\ UNCHANGED executor
     ELSE EnterConfig(b, d, dtask[b][d].cfg)
  /\ UNCHANGED <<scheduler, devices, running_tasks, batch, caller, trigger, now, roster, adb, config, loaded_config, matching,
                 health, action, hist>>

\* Lines 153-184: initialize returns r (or raises).
dev_init(b, d, r) ==
  /\ dtask[b][d].st = "init"
  /\ LET t == [dtask[b][d] EXCEPT !.init = r]
     IN IF r # "true"
        THEN /\ Return(b, d, t, "false", "init_failed")
             /\ executor' = Cleanup(executor, d)
        ELSE IF AfterInit(t).st = "ret"
        THEN /\ Return(b, d, AfterInit(t), "false", "empty")
             /\ executor' = Cleanup(executor, d)
        ELSE /\ dtask' = [dtask EXCEPT ![b][d] = AfterInit(t)]
             /\ UNCHANGED executor
  /\ UNCHANGED <<scheduler, devices, running_tasks, batch, caller, trigger, now, roster, adb, config, loaded_config, matching,
                 health, action, hist>>

\* Lines 222-228: top of the step loop: end of the list, the running flag, the
\* pause gate.
dev_loop(b, d) ==
  /\ dtask[b][d].st = "loop"
  /\ LET t == dtask[b][d]
     IN dtask' = [dtask EXCEPT ![b][d] =
          IF t.i > Len(Script(t.cfg).steps) \/ ~executor.running
          THEN [t EXCEPT !.st = "after"]
          ELSE IF ~executor.resume_event
               THEN [t EXCEPT !.st = "gate", !.woken = FALSE]
               ELSE [t EXCEPT !.st = "step"]]
  /\ UNCHANGED <<scheduler, executor, devices, running_tasks, batch, caller, trigger,
                 now, roster, adb, config, loaded_config, matching, health, action, hist>>

\* Lines 332-348: CancelledError inside execute_config.
CancelHandler(b, d) ==
  /\ devices' = update_device_action(devices, d, None)
  /\ executor' = Cleanup(executor, d)
  /\ Return(b, d, dtask[b][d], "false", "cancelled")

\* resume_event.wait() returns, or the cancellation arrives at it.
dev_gate_wake(b, d) ==
  /\ Idle /\ dtask[b][d].st = "gate"
  /\ dtask[b][d].woken \/ dtask[b][d].cancel
  /\ IF dtask[b][d].cancel
     THEN CancelHandler(b, d)
     ELSE /\ dtask' = [dtask EXCEPT ![b][d].st = "step", ![b][d].woken = FALSE]
          /\ UNCHANGED <<executor, devices>>
  /\ UNCHANGED <<scheduler, running_tasks, batch, caller, trigger, now, roster, adb, config, loaded_config, matching, health,
                 action, hist>>

\* dev_step with the enable mask ignored: every step goes to its handler.
dev_step_unmasked(b, d) ==
  /\ dtask[b][d].st = "step"
  /\ dtask' = [dtask EXCEPT ![b][d].st = "handler"]
  /\ devices' = update_device_action(devices, d,
                                     Script(dtask[b][d].cfg).steps[dtask[b][d].i].name)
  /\ UNCHANGED <<scheduler, executor, running_tasks, batch, caller, trigger, now, roster, adb, config, loaded_config, matching,
                 health, action, hist>>

\* dev_step that calls whatever the action name gives, callable or not.
dev_step_no_lookup(b, d) ==
  /\ dtask[b][d].st = "step"
  /\ LET t == dtask[b][d]
         sc == Script(t.cfg)
         step == sc.steps[t.i]
     IN IF step.name \in DOMAIN sc.enabled_steps /\ ~sc.enabled_steps[step.name]
        THEN /\ dtask' = [dtask EXCEPT ![b][d].st = "loop", ![b][d].i = t.i + 1,
                                        ![b][d].skipped = @ \cup {t.i}]
             /\ UNCHANGED devices
        ELSE /\ dtask' = [dtask EXCEPT ![b][d].st = "handler"]
             /\ devices' = update_device_action(devices, d, step.name)
  /\ UNCHANGED <<scheduler, executor, running_tasks, batch, caller, trigger, now, roster, adb, config, loaded_config, matching,
                 health, action, hist>>

\* Lines 231-275: the enable mask, the handler lookup, the action tag.
dev_step(b, d) ==
  /\ dtask[b][d].st = "step"
  /\ LET t == dtask[b][d]
         sc == Script(t.cfg)
         step == sc.steps[t.i]
     IN IF step.name \in DOMAIN sc.enabled_steps /\ ~sc.enabled_steps[step.name]
        THEN /\ dtask' = [dtask EXCEPT ![b][d].st = "loop", ![b][d].i = t.i + 1,
                                        ![b][d].skipped = @ \cup {t.i}]
             /\ UNCHANGED devices
        ELSE IF step.action \notin sc.handlers
        THEN /\ dtask' = [dtask EXCEPT ![b][d].st = "after", ![b][d].success = FALSE]
             /\ UNCHANGED devices
        ELSE /\ dtask' = [dtask EXCEPT ![b][d].st = "handler"]
             /\ devices' = update_device_action(devices, d, step.name)
  /\ UNCHANGED <<scheduler, executor, running_tasks, batch, caller, trigger, now, roster, adb, config, loaded_config, matching,
                 health, action, hist>>

\* dev_handler without the break: a failed step is recorded and the loop goes on.
dev_handler_no_break(b, d, r) ==
  /\ dtask[b][d].st = "handler"
  /\ dtask' = [dtask EXCEPT ![b][d].st = "stepEnd",
                            ![b][d].calls = @ \cup {dtask[b][d].i},
                            ![b][d].oks = IF r = "true" THEN @ \cup {dtask[b][d].i} ELSE @,
                            ![b][d].success = (r = "true") /\ @]
  /\ UNCHANGED <<scheduler, executor, devices, running_tasks, batch, caller, trigger,
                 now, roster, adb, config, loaded_config, matching, health, action, hist>>

\* dev_handler in which a failed step also cancels the other device tasks of
\* the batch.
dev_handler_cancels_siblings(b, d, r) ==
  /\ dtask[b][d].st = "handler"
  /\ dtask' = [dtask EXCEPT ![b] =
                 [e \in Devices |->
                    IF e = d
                    THEN IF r = "true"
                         THEN [dtask[b][d] EXCEPT !.st = "stepEnd",
                                                  !.calls = @ \cup {dtask[b][d].i},
                                                  !.oks = @ \cup {dtask[b][d].i}]
                         ELSE [dtask[b][d] EXCEPT !.st = "after", !.success = FALSE,
                                                  !.calls = @ \cup {dtask[b][d].i}]
                    ELSE IF r # "true" /\ dtask[b][e].st # "none"
                         THEN [dtask[b][e] EXCEPT !.cancel = TRUE]
                         ELSE dtask[b][e]]]
  /\ UNCHANGED <<scheduler, executor, devices, running_tasks, batch, caller, trigger,
                 now, roster, adb, config, loaded_config, matching, health, action, hist>>

\* Lines 277-297: the handler returns r (or raises).
dev_handler(b, d, r) ==
  /\ dtask[b][d].st = "handler"
  /\ LET t == [dtask[b][d] EXCEPT !.calls = @ \cup {dtask[b][d].i}]
     IN dtask' = [dtask EXCEPT ![b][d] =
          IF r = "true" THEN [t EXCEPT !.st = "stepEnd", !.oks = @ \cup {t.i}]
          ELSE [t EXCEPT !.st = "after", !.success = FALSE]]
  /\ UNCHANGED <<scheduler, executor, devices, running_tasks, batch, caller, trigger,
                 now, roster, adb, config, loaded_config, matching, health, action, hist>>

\* dev_step_end that does not advance: the loop takes the same step again.
dev_step_end_repeat(b, d) ==
  /\ dtask[b][d].st = "stepEnd"
  /\ dtask' = [dtask EXCEPT ![b][d].st = "loop"]
  /\ UNCHANGED <<scheduler, executor, devices, running_tasks, batch, caller, trigger,
                 now, roster, adb, config, loaded_config, matching, health, action, hist>>

\* Line 300: the step has ended; on to the next iteration.
dev_step_end(b, d) ==
  /\ dtask[b][d].st = "stepEnd"
  /\ dtask' = [dtask EXCEPT ![b][d].st = "loop", ![b][d].i = @ + 1]
  /\ UNCHANGED <<scheduler, executor, devices, running_tasks, batch, caller, trigger,
                 now, roster, adb, config, loaded_config, matching, health, action, hist>>

\* Line 303: after the loop the action tag is reset.
dev_after(b, d) ==
  /\ dtask[b][d].st = "after"
  /\ devices' = update_device_action(devices, d, None)
  /\ dtask' = [dtask EXCEPT ![b][d].st = "finalize"]
  /\ UNCHANGED <<scheduler, executor, running_tasks, batch, caller, trigger, now, roster, adb, config, loaded_config, matching,
                 health, action, hist>>

\* Lines 306-330: finalize(success), the bookkeeping, return success; then
\* lines 368-380 of _run_device_automation: on success go on with next_config.
dev_finalize(b, d) ==
  /\ dtask[b][d].st = "finalize"
  /\ LET t == dtask[b][d]
         sc == Script(t.cfg)
         t1 == [t EXCEPT !.fin = IF sc.has_finalize THEN Append(@, t.success) ELSE @]
     IN /\ Return(b, d, t1, IF t.success THEN "true" ELSE "false",
                   IF t.success THEN "success" ELSE "failed")
        /\ executor' = Cleanup(executor, d)
  /\ UNCHANGED <<scheduler, devices, running_tasks, batch, caller, trigger, now, roster, adb, config, loaded_config, matching,
                 health, action, hist>>

\* dev_return that goes on with next_config whatever execute_config returned.
dev_return_always(b, d) ==
  /\ dtask[b][d].st = "ret"
  /\ LET next == Script(dtask[b][d].cfg).next_config
     IN IF next # "" /\ validate_config(next)
        THEN EnterConfig(b, d, next)
        ELSE /\ dtask' = [dtask EXCEPT ![b][d] = DoneTask]
             /\ UNCHANGED executor
  /\ UNCHANGED <<scheduler, devices, running_tasks, batch, caller, trigger, now, roster, adb, config, loaded_config, matching,
                 health, action, hist>>

\* dev_return that does not look for the successor's script file.
dev_return_unchecked(b, d) ==
  /\ dtask[b][d].st = "ret"
  /\ LET next == Script(dtask[b][d].cfg).next_config
     IN IF dtask[b][d].ret = "true" /\ next # ""
        THEN EnterConfig(b, d, next)
        ELSE /\ dtask' = [dtask EXCEPT ![b][d] = DoneTask]
             /\ UNCHANGED executor
  /\ UNCHANGED <<scheduler, devices, running_tasks, batch, caller, trigger, now, roster, adb, config, loaded_config, matching,
                 health, action, hist>>

\* Lines 368-384 of _run_device_automation: execute_config has returned. On
\* success the run goes on with next_config, if the script names one that
\* exists; otherwise the device task ends.
dev_return(b, d) ==
  /\ dtask[b][d].st = "ret"
  /\ LET t == dtask[b][d]
         next == Script(t.cfg).next_config
     IN IF t.ret = "true" /\ next # "" /\ validate_config(next)
        THEN EnterConfig(b, d, next)
        ELSE /\ dtask' = [dtask EXCEPT ![b][d] = DoneTask]
             /\ UNCHANGED executor
  /\ UNCHANGED <<scheduler, devices, running_tasks, batch, caller, trigger, now, roster, adb, config, loaded_config, matching,
                 health, action, hist>>

(***************************************************************************)
(* Specification: every operation of the Scheduler on a one-device roster, *)
(* with the clock not tracked and devices.auto_reconnect off (no health    *)
(* task)                                                                   *)
(***************************************************************************)
Next ==
  \/ start
  \/ stop
  \/ stop_after_trigger
  \/ stop_after_gather
  \/ pause_automation
  \/ resume_automation
  \/ stop_automation
  \/ stop_automation_after_gather
  \/ run_automation
  \/ \E c \in RequestNames : run_specific_config(c)
  \/ run_wake
  \/ \E m \in SampleMinutes : trigger_sample(m)
  \/ trigger_run_wake
  \/ trigger_cancelled
  \/ \E b \in BIds : batch_start(b)
  \/ \E b \in BIds, ok \in BOOLEAN : batch_connect_done(b, ok)
  \/ \E b \in BIds : batch_info_done(b)
  \/ \E b \in BIds : batch_gather_done(b)
  \/ \E b \in BIds : batch_cancelled(b)
  \/ \E b \in BIds, d \in Devices : dev_start(b, d)
  \/ \E b \in BIds, d \in Devices, r \in Outcomes : dev_init(b, d, r)
  \/ \E b \in BIds, d \in Devices : dev_loop(b, d)
  \/ \E b \in BIds, d \in Devices : dev_gate_wake(b, d)
  \/ \E b \in BIds, d \in Devices : dev_step(b, d)
  \/ \E b \in BIds, d \in Devices, r \in Outcomes : dev_handler(b, d, r)
  \/ \E b \in BIds, d \in Devices : dev_step_end(b, d)
  \/ \E b \in BIds, d \in Devices : dev_after(b, d)
  \/ \E b \in BIds, d \in Devices : dev_finalize(b, d)
  \/ \E b \in BIds, d \in Devices : dev_return(b, d)

Spec == Init /\ [][Next]_vars


(***************************************************************************)
(* Specification: a two-device roster fanned out in two batches, with the  *)
(* caller starting, pausing and resuming runs                              *)
(***************************************************************************)
InitFan == InitWith(<<"d1", "d2">>, 0, FALSE, NoHealth)

NextFan ==
  \/ start
  \/ pause_automation
  \/ resume_automation
  \/ run_automation
  \/ \E c \in RequestNames : run_specific_config(c)
  \/ run_wake
  \/ \E m \in SampleMinutes : trigger_sample(m)
  \/ trigger_run_wake
  \/ \E b \in BIds : batch_start(b)
  \/ \E b \in BIds, ok \in BOOLEAN : batch_connect_done(b, ok)
  \/ \E b \in BIds : batch_info_done(b)
  \/ \E b \in BIds : batch_gather_done(b)
  \/ \E b \in BIds, d \in Devices : dev_start(b, d)
  \/ \E b \in BIds, d \in Devices, r \in Outcomes : dev_init(b, d, r)
  \/ \E b \in BIds, d \in Devices : dev_loop(b, d)
  \/ \E b \in BIds, d \in Devices : dev_gate_wake(b, d)
  \/ \E b \in BIds, d \in Devices : dev_step(b, d)
  \/ \E b \in BIds, d \in Devices, r \in Outcomes : dev_handler(b, d, r)
  \/ \E b \in BIds, d \in Devices : dev_step_end(b, d)
  \/ \E b \in BIds, d \in Devices : dev_after(b, d)
  \/ \E b \in BIds, d \in Devices : dev_finalize(b, d)
  \/ \E b \in BIds, d \in Devices : dev_return(b, d)

SpecFan == InitFan /\ [][NextFan]_vars


(***************************************************************************)
(* DeviceManager: the health task, the CLI's device commands, and the      *)
(* bridge calls in flight                                                  *)
(***************************************************************************)
\* device_id in self.devices
device_exists(d) == \E n \in 1..Len(roster) : roster[n] = d

\* DeviceManager.device_connected
device_connected(d) == device_exists(d) /\ devices[d].connected

\* The tasks suspended in a call of the bridge client against device d: a
\* batch task inside connect_batch, the CLI inside a device command, the
\* health task inside a reconnect, an execute_action call inside an operation.
BridgeCalls(d) ==
  {<<"batch", b>> : b \in {x \in BIds : /\ batch[x].st \in {"connect", "info"}
                                        /\ BatchDevices(x)[batch[x].k] = d}}
  \cup (IF caller.op \in {"connect", "disconnect", "screenshot"} /\ caller.dev = d
        THEN {<<"cli", 0>>} ELSE {})
  \cup (IF health.st \in {"connect", "info"} /\ Head(health.queue) = d
        THEN {<<"health", 0>>} ELSE {})
  \cup (IF action.st = "bridge" /\ action.dev = d THEN {<<"action", 0>>} ELSE {})

\* update_device_statuses, lines 228-243: S is the set of devices the bridge
\* lists in state 'device'.
update_device_statuses(S) ==
  [d \in Devices |->
     IF ~device_exists(d) THEN devices[d]
     ELSE IF d \in S
          THEN [devices[d] EXCEPT !.connected = TRUE, !.status = "connected",
                                  !.connection_attempts = 0]
          ELSE [devices[d] EXCEPT !.connected = FALSE, !.status = "disconnected"]]

\* _reconnect_disconnected_devices, lines 202-211: the disconnected devices
\* whose last attempt is connect_timeout or more ago, in roster order. L is
\* the set of devices for which that much time has passed since an attempt.
ReconnectQueue(devs, L) ==
  SelectSeq(roster,
            LAMBDA d : /\ ~devs[d].connected
                       /\ IF Stamped
                          THEN now - devs[d].last_connection_attempt >= connect_timeout
                          ELSE devs[d].last_connection_attempt = 0 \/ d \in L)

\* The health task begins connect_device for the head of q, or sleeps.
HealthGo(devs, q) ==
  IF q = <<>>
  THEN /\ devices' = devs
       /\ health' = [WaitingHealth EXCEPT
                       !.wake = IF Stamped THEN now + status_check_interval ELSE 0]
  ELSE /\ devices' = ConnectBegin(devs, Head(q))
       /\ health' = [st |-> "connect", queue |-> q, wake |-> 0]

\* One round of _check_devices_status_task: refresh the statuses, then start
\* reconnecting.
health_check(S, L) ==
  /\ Idle /\ health.st = "wait" /\ Due(health.wake)
  /\ HealthGo(update_device_statuses(S), ReconnectQueue(update_device_statuses(S), L))
  /\ hist' = Settled(Overtaken(Settled(hist, S), {d \in Devices : device_exists(d) /\ d \notin S}),
                     HeadSet(ReconnectQueue(update_device_statuses(S), L)))
  /\ UNCHANGED <<scheduler, executor, running_tasks, batch, dtask, caller, trigger,
                 now, roster, adb, config, loaded_config, matching, action>>

\* The bridge's connect returns to the health task.
health_connect_done(ok) ==
  /\ Idle /\ health.st = "connect"
  /\ IF ok
     THEN /\ health' = [health EXCEPT !.st = "info"]
          /\ UNCHANGED <<devices, hist>>
     ELSE /\ HealthGo(ConnectFail(devices, Head(health.queue)), Tail(health.queue))
          /\ hist' = Settled(hist, {Head(health.queue)} \cup HeadSet(Tail(health.queue)))
  /\ UNCHANGED <<scheduler, executor, running_tasks, batch, dtask, caller, trigger,
                 now, roster, adb, config, loaded_config, matching, action>>

\* get_device_info returns to the health task.
health_info_done ==
  /\ Idle /\ health.st = "info"
  /\ HealthGo(ConnectSucceed(devices, Head(health.queue)), Tail(health.queue))
  /\ hist' = Settled(hist, {Head(health.queue)} \cup HeadSet(Tail(health.queue)))
  /\ UNCHANGED <<scheduler, executor, running_tasks, batch, dtask, caller, trigger,
                 now, roster, adb, config, loaded_config, matching, action>>

\* CLI `connect d`: DeviceManager.connect_device(d). An unknown id returns
\* False (line 265).
cli_connect(d) ==
  /\ Idle /\ caller.op = "idle"
  /\ IF device_exists(d)
     THEN /\ devices' = ConnectBegin(devices, d)
          /\ caller' = [IdleCaller EXCEPT !.op = "connect", !.pc = "connect", !.dev = d]
          /\ hist' = Settled(hist, {d})
     ELSE /\ caller' = [IdleCaller EXCEPT !.ret = "false"]
          /\ UNCHANGED <<devices, hist>>
  /\ UNCHANGED <<scheduler, executor, running_tasks, batch, dtask, trigger, now, roster, adb, config, loaded_config, matching,
                 health, action>>

cli_connect_done(ok) ==
  /\ Idle /\ caller.op = "connect" /\ caller.pc = "connect"
  /\ IF ok
     THEN /\ caller' = [caller EXCEPT !.pc = "info"]
          /\ UNCHANGED <<devices, hist>>
     ELSE /\ caller' = [IdleCaller EXCEPT !.ret = "false"]
          /\ devices' = ConnectFail(devices, caller.dev)
          /\ hist' = Settled(hist, {caller.dev})
  /\ UNCHANGED <<scheduler, executor, running_tasks, batch, dtask, trigger, now, roster, adb, config, loaded_config, matching,
                 health, action>>

cli_info_done ==
  /\ Idle /\ caller.op = "connect" /\ caller.pc = "info"
  /\ caller' = [IdleCaller EXCEPT !.ret = "true"]
  /\ devices' = ConnectSucceed(devices, caller.dev)
  /\ hist' = Settled(hist, {caller.dev})
  /\ UNCHANGED <<scheduler, executor, running_tasks, batch, dtask, trigger, now, roster, adb, config, loaded_config, matching,
                 health, action>>

\* CLI `disconnect d`: DeviceManager.disconnect_device(d) calls the bridge. An
\* unknown id returns False (line 331).
cli_disconnect(d) ==
  /\ Idle /\ caller.op = "idle"
  /\ caller' = IF device_exists(d)
               THEN [IdleCaller EXCEPT !.op = "disconnect", !.pc = "bridge", !.dev = d]
               ELSE [IdleCaller EXCEPT !.ret = "false"]
  /\ UNCHANGED <<scheduler, executor, devices, running_tasks, batch, dtask, trigger,
                 now, roster, adb, config, loaded_config, matching, health, action, hist>>

\* Lines 334-352: whatever the bridge answered (ok), the record becomes
\* disconnected and its action tag is reset; the call returns the bridge's answer.
cli_disconnect_done(ok) ==
  /\ Idle /\ caller.op = "disconnect"
  /\ caller' = [IdleCaller EXCEPT !.ret = IF ok THEN "true" ELSE "false"]
  /\ devices' = [devices EXCEPT ![caller.dev].connected = FALSE,
                                ![caller.dev].status = "disconnected",
                                ![caller.dev].current_action = None]
  /\ hist' = Overtaken(hist, {caller.dev})
  /\ UNCHANGED <<scheduler, executor, running_tasks, batch, dtask, trigger, now, roster, adb, config, loaded_config, matching,
                 health, action>>

\* CLI `screenshot d`: DeviceManager.take_screenshot(d) up to its bridge call.
cli_screenshot(d) ==
  /\ Idle /\ caller.op = "idle"
  /\ IF device_connected(d)
     THEN /\ devices' = update_device_action(devices, d, "take_screenshot")
          /\ caller' = [IdleCaller EXCEPT !.op = "screenshot", !.pc = "bridge", !.dev = d]
     ELSE UNCHANGED <<devices, caller>>
  /\ UNCHANGED <<scheduler, executor, running_tasks, batch, dtask, trigger, now, roster, adb, config, loaded_config, matching,
                 health, action, hist>>

\* The bridge's take_screenshot returns: the tag is reset (line 559).
cli_screenshot_done ==
  /\ Idle /\ caller.op = "screenshot"
  /\ caller' = IdleCaller
  /\ devices' = update_device_action(devices, caller.dev, None)
  /\ UNCHANGED <<scheduler, executor, running_tasks, batch, dtask, trigger, now, roster, adb, config, loaded_config, matching,
                 health, action, hist>>


(***************************************************************************)
(* ActionExecutor.execute_action: one declarative action against a device  *)
(***************************************************************************)
\* The action types given to execute_action: "" is an action without a type,
\* "other" a type execute_action does not know.
ActionTypes ==
  {"", "click_image", "input_text", "keyevent", "sleep", "restart_app", "tap", "other"}

\* The types that require a field (template, keycode, package, coordinates).
NeedsField == {"click_image", "keyevent", "restart_app", "tap"}

\* The DeviceManager operation a type starts with.
FirstOp(ty) ==
  CASE ty = "click_image" -> "take_screenshot"
    [] ty = "input_text" -> "input_text"
    [] ty = "restart_app" -> "restart_app"
    [] OTHER -> "input_tap"

\* execute_action(d, action) up to its first suspension. arg says whether the
\* field the type requires is given.
action_call(d, ty, arg) ==
  /\ Idle /\ action.st = "none"
  /\ LET a == [NoAction EXCEPT !.dev = d, !.type = ty, !.arg = arg]
         t == [a EXCEPT !.tagged = TRUE]
     IN IF ~device_connected(d) \/ ty = ""
        THEN \* lines 462-470: return False before the tag is set
             /\ action' = [a EXCEPT !.st = "ret"]
             /\ UNCHANGED devices
        ELSE IF ty \in NeedsField /\ ~arg
        THEN \* line 479, then 487-489 / 615-617 / 642-644 / 681-683: return False
             /\ action' = [t EXCEPT !.st = "ret"]
             /\ devices' = update_device_action(devices, d, "action")
        ELSE IF ty \in {"keyevent", "other"}
        THEN \* keyevent: subscripting the coroutine raises, the handler of lines
             \* 715-725 resets the tag; an unknown type falls through to line 697
             /\ action' = [t EXCEPT !.st = "ret"]
             /\ devices' = update_device_action(devices, d, None)
        ELSE IF ty = "sleep"
        THEN /\ action' = [t EXCEPT !.st = "sleep"]
             /\ devices' = update_device_action(devices, d, "action")
        ELSE \* the DeviceManager operation sets its own tag and calls the bridge
             /\ action' = [t EXCEPT !.st = "bridge", !.stage = FirstOp(ty)]
             /\ devices' = update_device_action(devices, d, FirstOp(ty))
  /\ UNCHANGED <<scheduler, executor, running_tasks, batch, dtask, caller, trigger,
                 now, roster, adb, config, loaded_config, matching, health, hist>>

\* The bridge call of the DeviceManager operation returns ok or not; the
\* operation resets the tag and returns. After a screenshot of click_image,
\* found says whether the template is on it: if so input_tap follows.
action_bridge_done(ok, found) ==
  /\ Idle /\ action.st = "bridge"
  /\ LET d == action.dev
         cleared == update_device_action(devices, d, None)
     IN IF action.stage = "take_screenshot" /\ ok /\ found /\ devices[d].connected
        THEN /\ action' = [action EXCEPT !.stage = "input_tap"]
             /\ devices' = update_device_action(devices, d, "input_tap")
        ELSE /\ action' = [action EXCEPT !.st = "ret",
                             !.ret = ok /\ action.stage # "take_screenshot"]
             /\ devices' = cleared
  /\ UNCHANGED <<scheduler, executor, running_tasks, batch, dtask, caller, trigger,
                 now, roster, adb, config, loaded_config, matching, health, hist>>

\* asyncio.sleep(duration) of a sleep action ends: line 697, return True.
action_sleep_done ==
  /\ Idle /\ action.st = "sleep"
  /\ action' = [action EXCEPT !.st = "ret", !.ret = TRUE]
  /\ devices' = update_device_action(devices, action.dev, None)
  /\ UNCHANGED <<scheduler, executor, running_tasks, batch, dtask, caller, trigger,
                 now, roster, adb, config, loaded_config, matching, health, hist>>

\* The call is cancelled while suspended: lines 706-713 reset the tag.
action_cancelled ==
  /\ Idle /\ action.st \in {"bridge", "sleep"}
  /\ action' = [action EXCEPT !.st = "ret", !.ret = FALSE]
  /\ devices' = update_device_action(devices, action.dev, None)
  /\ UNCHANGED <<scheduler, executor, running_tasks, batch, dtask, caller, trigger,
                 now, roster, adb, config, loaded_config, matching, health, hist>>

\* The client has the result.
action_return ==
  /\ Idle /\ action.st = "ret"
  /\ action' = NoAction
  /\ UNCHANGED <<scheduler, executor, devices, running_tasks, batch, dtask, caller,
                 trigger, now, roster, adb, config, loaded_config, matching, health, hist>>

(***************************************************************************)
(* Specification: the device manager with its health task, the CLI's       *)
(* device commands and execute_action calls, on a two-device roster        *)
(***************************************************************************)
InitDM == InitWith(<<"d1", "d2">>, 0, FALSE, WaitingHealth)

NextDM ==
  \/ \E S \in SUBSET Devices, L \in SUBSET Devices : health_check(S, L)
  \/ \E ok \in BOOLEAN : health_connect_done(ok)
  \/ health_info_done
  \/ \E d \in Devices : cli_connect(d)
  \/ \E ok \in BOOLEAN : cli_connect_done(ok)
  \/ cli_info_done
  \/ \E d \in Devices : cli_disconnect(d)
  \/ \E ok \in BOOLEAN : cli_disconnect_done(ok)
  \/ \E d \in Devices : cli_screenshot(d)
  \/ cli_screenshot_done
  \/ \E d \in Devices, ty \in ActionTypes, arg \in BOOLEAN : action_call(d, ty, arg)
  \/ \E ok \in BOOLEAN, found \in BOOLEAN : action_bridge_done(ok, found)
  \/ action_sleep_done
  \/ action_cancelled
  \/ action_return

SpecDM == InitDM /\ [][NextDM]_vars


(***************************************************************************)
(* Specification: the trigger task against a tracked wall clock            *)
(***************************************************************************)
\* The clock runs from 04:50 to 06:10 past the hour, in seconds.
StartTime == 290

EndTime == 370

InitTrigger == InitWith(<<"d1">>, StartTime, TRUE, NoHealth)

\* A second passes. A sleep that has expired ends before the clock moves on.
Tick ==
  /\ Idle /\ hist.timed /\ now < EndTime
  /\ ~(trigger.st \in {"new", "sleep", "run"} /\ ~trigger.cancel /\ trigger.wake <= now)
  /\ now' = now + 1
  /\ UNCHANGED <<scheduler, executor, devices, running_tasks, batch, dtask, caller,
                 trigger, roster, adb, config, loaded_config, matching, health, action, hist>>

NextTrigger ==
  \/ start
  \/ Tick
  \/ trigger_sample(MinuteOf(now))
  \/ trigger_run_wake
  \/ \E b \in BIds : batch_start(b)
  \/ \E b \in BIds, ok \in BOOLEAN : batch_connect_done(b, ok)
  \/ \E b \in BIds : batch_info_done(b)
  \/ \E b \in BIds : batch_gather_done(b)
  \/ \E b \in BIds, d \in Devices : dev_start(b, d)
  \/ \E b \in BIds, d \in Devices, r \in Outcomes : dev_init(b, d, r)
  \/ \E b \in BIds, d \in Devices : dev_loop(b, d)
  \/ \E b \in BIds, d \in Devices : dev_step(b, d)
  \/ \E b \in BIds, d \in Devices, r \in Outcomes : dev_handler(b, d, r)
  \/ \E b \in BIds, d \in Devices : dev_step_end(b, d)
  \/ \E b \in BIds, d \in Devices : dev_after(b, d)
  \/ \E b \in BIds, d \in Devices : dev_finalize(b, d)
  \/ \E b \in BIds, d \in Devices : dev_return(b, d)

SpecTrigger == InitTrigger /\ [][NextTrigger]_vars

(***************************************************************************)
(* Specification: the health task and the CLI's connect and disconnect     *)
(* against a tracked clock, on a two-device roster                         *)
(***************************************************************************)
\* The clock of this specification starts three seconds before EndTime.
HealthStartTime == 367

InitHealth == InitWith(<<"d1", "d2">>, HealthStartTime, TRUE, WaitingHealth)

NextHealth ==
  \/ Tick
  \/ \E S \in SUBSET Devices : health_check(S, {})
  \/ \E ok \in BOOLEAN : health_connect_done(ok)
  \/ health_info_done
  \/ \E d \in Devices : cli_connect(d)
  \/ \E ok \in BOOLEAN : cli_connect_done(ok)
  \/ cli_info_done
  \/ \E d \in Devices : cli_disconnect(d)
  \/ \E ok \in BOOLEAN : cli_disconnect_done(ok)

SpecHealth == InitHealth /\ [][NextHealth]_vars


(***************************************************************************)
(* Specification: every script of the store run on a one-device roster,    *)
(* with pause, resume and stop_automation                                  *)
(***************************************************************************)
\* The names the caller asks run_specific_config for.
ScriptRequests == {ConfigNames[n] : n \in 1..Len(ConfigNames)} \cup {"zz"}

NextScripts ==
  \/ start
  \/ pause_automation
  \/ resume_automation
  \/ stop_automation
  \/ stop_automation_after_gather
  \/ run_automation
  \/ \E c \in ScriptRequests : run_specific_config(c)
  \/ run_wake
  \/ \E b \in BIds : batch_start(b)
  \/ \E b \in BIds, ok \in BOOLEAN : batch_connect_done(b, ok)
  \/ \E b \in BIds : batch_info_done(b)
  \/ \E b \in BIds : batch_gather_done(b)
  \/ \E b \in BIds : batch_cancelled(b)
  \/ \E b \in BIds, d \in Devices : dev_start(b, d)
  \/ \E b \in BIds, d \in Devices, r \in Outcomes : dev_init(b, d, r)
  \/ \E b \in BIds, d \in Devices : dev_loop(b, d)
  \/ \E b \in BIds, d \in Devices : dev_gate_wake(b, d)
  \/ \E b \in BIds, d \in Devices : dev_step(b, d)
  \/ \E b \in BIds, d \in Devices, r \in Outcomes : dev_handler(b, d, r)
  \/ \E b \in BIds, d \in Devices : dev_step_end(b, d)
  \/ \E b \in BIds, d \in Devices : dev_after(b, d)
  \/ \E b \in BIds, d \in Devices : dev_finalize(b, d)
  \/ \E b \in BIds, d \in Devices : dev_return(b, d)

SpecScripts == Init /\ [][NextScripts]_vars

(***************************************************************************)
(* Specification: runs of the one-step script B on roster d1 while the CLI *)
(* pauses, resumes and disconnects the device                              *)
(***************************************************************************)
NextOps ==
  \/ start
  \/ pause_automation
  \/ resume_automation
  \/ run_specific_config("B")
  \/ run_wake
  \/ \E d \in Devices : cli_disconnect(d)
  \/ \E ok \in BOOLEAN : cli_disconnect_done(ok)
  \/ \E b \in BIds : batch_start(b)
  \/ \E b \in BIds, ok \in BOOLEAN : batch_connect_done(b, ok)
  \/ \E b \in BIds : batch_info_done(b)
  \/ \E b \in BIds : batch_gather_done(b)
  \/ \E b \in BIds, d \in Devices : dev_start(b, d)
  \/ \E b \in BIds, d \in Devices, r \in Outcomes : dev_init(b, d, r)
  \/ \E b \in BIds, d \in Devices : dev_loop(b, d)
  \/ \E b \in BIds, d \in Devices : dev_gate_wake(b, d)
  \/ \E b \in BIds, d \in Devices : dev_step(b, d)
  \/ \E b \in BIds, d \in Devices, r \in Outcomes : dev_handler(b, d, r)
  \/ \E b \in BIds, d \in Devices : dev_step_end(b, d)
  \/ \E b \in BIds, d \in Devices : dev_after(b, d)
  \/ \E b \in BIds, d \in Devices : dev_finalize(b, d)
  \/ \E b \in BIds, d \in Devices : dev_return(b, d)

SpecOps == Init /\ [][NextOps]_vars

(***************************************************************************)
(* Specification: run_automation on a two-device roster, in one batch of   *)
(* two devices or in two batches of one, with no pause and no stop         *)
(***************************************************************************)
InitIsolation ==
  \E bs \in {1, 2} : InitSized(<<"d1", "d2">>, bs, 0, FALSE, NoHealth)

NextIsolation ==
  \/ start
  \/ run_automation
  \/ run_wake
  \/ \E b \in BIds : batch_start(b)
  \/ \E b \in BIds, ok \in BOOLEAN : batch_connect_done(b, ok)
  \/ \E b \in BIds : batch_info_done(b)
  \/ \E b \in BIds : batch_gather_done(b)
  \/ \E b \in BIds, d \in Devices : dev_start(b, d)
  \/ \E b \in BIds, d \in Devices, r \in Outcomes : dev_init(b, d, r)
  \/ \E b \in BIds, d \in Devices : dev_loop(b, d)
  \/ \E b \in BIds, d \in Devices : dev_step(b, d)
  \/ \E b \in BIds, d \in Devices, r \in Outcomes : dev_handler(b, d, r)
  \/ \E b \in BIds, d \in Devices : dev_step_end(b, d)
  \/ \E b \in BIds, d \in Devices : dev_after(b, d)
  \/ \E b \in BIds, d \in Devices : dev_finalize(b, d)
  \/ \E b \in BIds, d \in Devices : dev_return(b, d)

SpecIsolation == InitIsolation /\ [][NextIsolation]_vars

(***************************************************************************)
(* Specification: the same runs under the scheduling of the event loop.    *)
(* A task that is ready is run however often other tasks hold the loop in  *)
(* between (the loop's ready queue is first in, first out), a sleep ends,  *)
(* and a handler or a bridge call that a task awaits returns.              *)
(***************************************************************************)
TaskSteps(b) ==
  \/ batch_start(b)
  \/ \E ok \in BOOLEAN : batch_connect_done(b, ok)
  \/ batch_info_done(b)
  \/ batch_gather_done(b)
  \/ \E d \in Devices :
        \/ dev_start(b, d)
        \/ \E r \in Outcomes : dev_init(b, d, r)
        \/ dev_loop(b, d)
        \/ dev_step(b, d)
        \/ \E r \in Outcomes : dev_handler(b, d, r)
        \/ dev_step_end(b, d)
        \/ dev_after(b, d)
        \/ dev_finalize(b, d)
        \/ dev_return(b, d)

Scheduling == WF_vars(run_wake) /\ \A b \in BIds : SF_vars(TaskSteps(b))

\* One run at a time: run_automation is called again only when the batch
\* tasks of the call before it have ended.
NextLive ==
  \/ start
  \/ running_tasks = {} /\ run_automation
  \/ run_wake
  \/ \E b \in BIds : TaskSteps(b)

SpecLive == InitIsolation /\ [][NextLive]_vars /\ Scheduling

(***************************************************************************)
(* Specification: get_device_batches on every roster of up to three        *)
(* devices and every batch_size from 1 to MaxBatchSize                     *)
(***************************************************************************)
RosterIds == {"d1", "d2", "d3"}

MaxBatchSize == 4

\* The keys of a dict: every sequence of distinct ids.
Rosters ==
  {ids \in UNION {[1..n -> RosterIds] : n \in 0..Cardinality(RosterIds)} :
     \A i, j \in 1..Len(ids) : ids[i] = ids[j] => i = j}

InitBatches ==
  \E ids \in Rosters, bs \in 1..MaxBatchSize : InitSized(ids, bs, 0, FALSE, NoHealth)

\* Line 259 of run_automation, line 405 of run_specific_config: the call of
\* get_device_batches, which reads the roster and batch_size and changes nothing.
get_batches_call ==
  /\ caller.op = "idle"
  /\ caller' = [IdleCaller EXCEPT !.op = "batches", !.i = Len(get_device_batches)]
  /\ UNCHANGED <<scheduler, executor, devices, running_tasks, batch, dtask, trigger,
                 now, roster, adb, config, loaded_config, matching, health, action, hist>>

get_batches_return ==
  /\ caller.op = "batches"
  /\ caller' = IdleCaller
  /\ UNCHANGED <<scheduler, executor, devices, running_tasks, batch, dtask, trigger,
                 now, roster, adb, config, loaded_config, matching, health, action, hist>>

NextBatches == get_batches_call \/ get_batches_return

SpecBatches == InitBatches /\ [][NextBatches]_vars

(***************************************************************************)
(* ConfigLoader.validate_config on a loaded script, lines 398-433, and a   *)
(* specification that applies it to every CONFIG dict of ConfigDicts       *)
(***************************************************************************)
IsList(v) == v \in {"empty list", "list"}

validate_fields(cfg) ==
  IF cfg.actions = "missing" \/ cfg.steps = "missing" THEN FALSE
  ELSE IF ~IsList(cfg.actions) THEN FALSE
  ELSE IF ~IsList(cfg.steps) THEN FALSE
  ELSE IF cfg.enabled_steps # "missing" /\ cfg.enabled_steps # "dict" THEN FALSE
  ELSE TRUE

validate_call ==
  /\ caller.op = "idle"
  /\ caller' = [IdleCaller EXCEPT !.op = "validate",
                                  !.ret = IF validate_fields(loaded_config)
                                          THEN "true" ELSE "false"]
  /\ UNCHANGED <<scheduler, executor, devices, running_tasks, batch, dtask, trigger,
                 now, roster, adb, config, loaded_config, matching, health, action, hist>>

validate_return ==
  /\ caller.op = "validate"
  /\ caller' = IdleCaller
  /\ UNCHANGED <<scheduler, executor, devices, running_tasks, batch, dtask, trigger,
                 now, roster, adb, config, loaded_config, matching, health, action, hist>>

InitValidate ==
  \E cfg \in ConfigDicts : InitLoaded(<<"d1">>, 1, 0, FALSE, NoHealth, cfg)

NextValidate == validate_call \/ validate_return

SpecValidate == InitValidate /\ [][NextValidate]_vars

(***************************************************************************)
(* DeviceManager.load_devices, and a specification that applies it to      *)
(* every roster file of up to MaxLines lines                               *)
(***************************************************************************)
MaxLines == 2

Lines ==
  {DeviceLine("blank", None), DeviceLine("comment", None)}
    \cup {DeviceLine(k, d) : k \in {"serial", "ip:port", "ip:port:name"}, d \in Devices}

Files == UNION {[1..n -> Lines] : n \in 0..MaxLines}

\* Lines 110-116: the lines that get a record are those with two parts or more.
Parsed(line) == line.kind \in {"ip:port", "ip:port:name"}

\* The keys of self.devices after the loop, in insertion order: a second line
\* with the id of an earlier one overwrites its record.
RECURSIVE Keys(_)
Keys(file) ==
  IF file = <<>> THEN <<>>
  ELSE LET n == Len(file)
           front == Keys(SubSeq(file, 1, n - 1))
       IN IF Parsed(file[n]) /\ \A j \in 1..Len(front) : front[j] # file[n].id
          THEN Append(front, file[n].id)
          ELSE front

\* Lines 127-138: the record of a device just read from the file.
LoadedDevice ==
  [connected |-> FALSE, status |-> "not connected", current_action |-> None,
   connection_attempts |-> 0, last_connection_attempt |-> 0]

\* load_devices, called by initialize() (main.py 104); with auto_reconnect the
\* health task is started anew (lines 149-150).
load_devices ==
  /\ Idle /\ caller.op = "idle"
  /\ roster' = Keys(config.devices_file)
  /\ devices' = [d \in DOMAIN devices |-> LoadedDevice]
  /\ health' = IF health.st = "off" THEN health ELSE WaitingHealth
  /\ caller' = [IdleCaller EXCEPT !.op = "load", !.ret = "true"]
  /\ UNCHANGED <<scheduler, executor, running_tasks, batch, dtask, trigger, now, adb,
                 config, loaded_config, matching, action, hist>>

load_devices_return ==
  /\ caller.op = "load"
  /\ caller' = IdleCaller
  /\ UNCHANGED <<scheduler, executor, devices, running_tasks, batch, dtask, trigger,
                 now, roster, adb, config, loaded_config, matching, health, action, hist>>

InitLoad ==
  \E file \in Files : InitFiles(file, <<>>, 1, 0, FALSE, NoHealth, WellFormed)

NextLoad == load_devices \/ load_devices_return

SpecLoad == InitLoad /\ [][NextLoad]_vars

(***************************************************************************)
(* ActionExecutor.execute_action with type wait_image (lines 539-586),     *)
(* against a tracked clock                                                 *)
(***************************************************************************)
\* action.get('timeout', 30), here two seconds.
WaitTimeout == 2

\* The clock of this specification starts four seconds before EndTime.
WaitStartTime == 366

\* DeviceManager.take_screenshot of a poll: a device that is not connected
\* gives no screenshot at once (device_manager.py 547), and the poll sleeps.
WaitShot(a, devs) ==
  IF ~devs[a.dev].connected
  THEN /\ action' = [a EXCEPT !.st = "wsleep", !.polls = @ + 1, !.wake = now + 1]
       /\ devices' = devs
  ELSE /\ action' = [a EXCEPT !.st = "shot", !.polls = @ + 1]
       /\ devices' = update_device_action(devs, a.dev, "take_screenshot")

\* The head of the loop (line 551), then the gate (line 553).
WaitLoop(a, devs) ==
  IF now - a.start >= WaitTimeout
  THEN \* lines 584-585, then 697-704: the tag is reset, success = False
       /\ action' = [a EXCEPT !.st = "ret", !.ret = FALSE]
       /\ devices' = update_device_action(devs, a.dev, None)
  ELSE IF ~executor.resume_event
  THEN /\ action' = [a EXCEPT !.st = "gate", !.woken = FALSE]
       /\ devices' = devs
  ELSE WaitShot(a, devs)

\* execute_action(d, {'type': 'wait_image', ...}); arg says whether the action
\* names a template.
wait_call(d, arg) ==
  /\ Idle /\ action.st = "none"
  /\ LET a == [NoAction EXCEPT !.dev = d, !.type = "wait_image", !.arg = arg]
     IN IF ~device_connected(d)
        THEN /\ action' = [a EXCEPT !.st = "ret"]
             /\ UNCHANGED devices
        ELSE IF ~arg
        THEN /\ action' = [a EXCEPT !.st = "ret", !.tagged = TRUE]
             /\ devices' = update_device_action(devices, d, "action")
        ELSE WaitLoop([a EXCEPT !.tagged = TRUE, !.stage = "wait", !.start = now],
                      update_device_action(devices, d, "action"))
  /\ UNCHANGED <<scheduler, executor, running_tasks, batch, dtask, caller, trigger,
                 now, roster, adb, config, loaded_config, matching, health, hist>>

\* resume_event.wait() returns.
wait_gate_wake ==
  /\ Idle /\ action.st = "gate" /\ action.woken
  /\ WaitShot(action, devices)
  /\ UNCHANGED <<scheduler, executor, running_tasks, batch, dtask, caller, trigger,
                 now, roster, adb, config, loaded_config, matching, health, hist>>

\* wait_shot_done in which a poll without a screenshot ends the wait.
wait_shot_done_gives_up(ok, found) ==
  /\ Idle /\ action.st = "shot"
  /\ found => ok
  /\ devices' = update_device_action(devices, action.dev, None)
  /\ action' = IF ok /\ found
               THEN [action EXCEPT !.st = "ret", !.ret = TRUE, !.matched = TRUE]
               ELSE IF ~ok
               THEN [action EXCEPT !.st = "ret", !.ret = FALSE]
               ELSE [action EXCEPT !.st = "wsleep", !.wake = now + 1]
  /\ UNCHANGED <<scheduler, executor, running_tasks, batch, dtask, caller, trigger,
                 now, roster, adb, config, loaded_config, matching, health, hist>>

\* take_screenshot returns (it resets its tag): ok says whether there is a
\* screenshot that loads, found whether find_template finds the template on it
\* (a template that does not load is not found).
wait_shot_done(ok, found) ==
  /\ Idle /\ action.st = "shot"
  /\ found => ok
  /\ devices' = update_device_action(devices, action.dev, None)
  /\ action' = IF ok /\ found
               THEN [action EXCEPT !.st = "ret", !.ret = TRUE, !.matched = TRUE]
               ELSE [action EXCEPT !.st = "wsleep", !.wake = now + 1]
  /\ UNCHANGED <<scheduler, executor, running_tasks, batch, dtask, caller, trigger,
                 now, roster, adb, config, loaded_config, matching, health, hist>>

\* asyncio.sleep(1) ends: back to the head of the loop.
wait_sleep_done ==
  /\ Idle /\ action.st = "wsleep" /\ Due(action.wake)
  /\ WaitLoop(action, devices)
  /\ UNCHANGED <<scheduler, executor, running_tasks, batch, dtask, caller, trigger,
                 now, roster, adb, config, loaded_config, matching, health, hist>>

\* The state after start() and a finished run on a connected d1: execute_config
\* has set executor.running (line 88) and only stop_execution resets it.
InitWait ==
  /\ matching = NoMatching
  /\ roster = <<"d1">>
  /\ config = [batch_size |-> 1, devices_file |-> FileOf(<<"d1">>), enabled |-> TRUE]
  /\ loaded_config = WellFormed
  /\ scheduler = [running |-> TRUE, paused |-> FALSE, scheduler_task |-> FALSE]
  /\ executor = [exists |-> TRUE, running |-> TRUE, paused |-> FALSE,
                 resume_event |-> TRUE, running_devices |-> {},
                 running_configs |-> [d \in Devices |-> None]]
  /\ devices = [d \in Devices |->
                  [connected |-> d = "d1",
                   status |-> IF d = "d1" THEN "connected" ELSE "not connected",
                   current_action |-> None,
                   connection_attempts |-> 0,
                   last_connection_attempt |-> IF d = "d1" THEN 1 ELSE 0]]
  /\ running_tasks = {}
  /\ batch = [b \in BIds |-> DoneBatch]
  /\ dtask = [b \in BIds |-> [d \in Devices |-> NoTask]]
  /\ caller = IdleCaller
  /\ trigger = NoTrigger
  /\ now = WaitStartTime
  /\ health = NoHealth
  /\ action = NoAction
  /\ adb = NoAdb
  /\ hist = [stopped |-> FALSE, auto |-> {}, timed |-> TRUE, stale |-> {}]

NextWait ==
  \/ Tick
  \/ pause_automation
  \/ resume_automation
  \/ \E d \in Devices, arg \in BOOLEAN : wait_call(d, arg)
  \/ wait_gate_wake
  \/ \E ok \in BOOLEAN, found \in BOOLEAN : wait_shot_done(ok, found)
  \/ wait_sleep_done
  \/ action_return

SpecWait == InitWait /\ [][NextWait]_vars

(***************************************************************************)
(* ADBManager: the calls that spawn a child process (adb ...) and await it *)
(***************************************************************************)
\* config.get('max_retries', 3)
max_retries == 3

\* The operations that name a device (adb -s device_id ..., adb connect ip:port).
DeviceOps == {"exec", "connect", "disconnect", "screenshot"}

AdbOps ==
  {"exec", "connect", "disconnect", "version", "start_server", "stop_server",
   "screenshot"}

\* The operations whose wait for the child is wrapped in asyncio.wait_for:
\* get_version awaits process.communicate() bare (line 267).
Bounded(op) == op # "version"

\* The operations that catch the timeout and call process.kill(): execute_command
\* (468), start_server (191), stop_server (237), is_server_running (161).
\* connect_device (352-355) and disconnect_device (406-408) only log.
Kills(op) == op \in {"exec", "screenshot", "start_server", "stop_server"}

\* The operations that run a retry loop of max_retries attempts.
Retries(op) == op \in {"exec", "connect", "screenshot"}

\* The first command of an operation.
FirstStage(op) ==
  CASE op = "screenshot" -> "screencap"
    [] op = "start_server" -> "start-server"
    [] op = "stop_server" -> "kill-server"
    [] OTHER -> None

\* asyncio.create_subprocess_exec for command stage of the call a.
Spawn(a, stage) ==
  [a EXCEPT !.pc = "child", !.stage = stage, !.attempt = 1, !.child = TRUE,
            !.rm = @ \/ stage = "rm", !.last = None]

\* The call a returns r.
AdbReturn(a, r) == [a EXCEPT !.pc = "ret", !.child = FALSE, !.ret = r]

\* The command the call a is at has ended with success ok (for a command run
\* by execute_command: after its retry loop).
CommandDone(a, ok) ==
  CASE a.stage = "screencap" -> IF ok THEN Spawn(a, "pull") ELSE AdbReturn(a, "false")
    [] a.stage = "pull" -> IF ok THEN Spawn(a, "rm") ELSE AdbReturn(a, "false")
    [] a.stage = "rm" -> AdbReturn(a, "true")
    [] a.stage = "start-server" ->
         IF ok THEN [a EXCEPT !.pc = "sleep", !.child = FALSE] ELSE AdbReturn(a, "false")
    [] a.stage = "kill-server" -> Spawn(a, "devices")
    [] a.stage = "devices" ->
         AdbReturn(a, IF (a.op = "start_server") = ok THEN "true" ELSE "false")
    [] OTHER -> AdbReturn(a, IF ok THEN "true" ELSE "false")

\* An attempt of the call a has failed: sleep retry_interval in a retry loop,
\* else the command has failed.
AttemptFailed(a) ==
  IF Retries(a.op)
  THEN [a EXCEPT !.pc = "sleep", !.child = FALSE]
  ELSE CommandDone([a EXCEPT !.child = FALSE], FALSE)

\* A client calls an operation of the bridge client, which spawns its child
\* (device identifiers are of the form ip:port).
adb_call(op, d) ==
  /\ adb.pc = "none"
  /\ (d = None) = (op \notin DeviceOps)
  /\ adb' = Spawn([NoAdb EXCEPT !.op = op, !.dev = d], FirstStage(op))
  /\ UNCHANGED <<scheduler, executor, devices, running_tasks, batch, dtask, caller,
                 trigger, now, roster, config, loaded_config, matching, health, action, hist>>

\* The awaited child exits in time: r is "ok" (return code 0, or the expected
\* output), "fail", or "gone" (stderr says the device is not found, lines
\* 461-463). created says whether a screencap has written the remote file: one
\* that exits with code 0 has, one that exits with an error has not.
adb_child_exit(r, created) ==
  /\ adb.pc = "child"
  /\ created = (adb.stage = "screencap" /\ r = "ok")
  /\ r = "gone" => adb.op \in {"exec", "screenshot"}
  /\ LET a == [adb EXCEPT !.child = FALSE, !.remote = @ \/ created, !.last = r]
     IN adb' = CASE r = "ok" -> CommandDone(a, TRUE)
                 [] r = "gone" -> CommandDone(a, FALSE)
                 [] OTHER -> AttemptFailed(a)
  /\ UNCHANGED <<scheduler, executor, devices, running_tasks, batch, dtask, caller,
                 trigger, now, roster, config, loaded_config, matching, health, action, hist>>

\* The timeout of asyncio.wait_for expires before the child exits: the wait is
\* abandoned; the child is killed only where the handler calls process.kill().
\* A screencap that is killed may have written the remote file already.
adb_timeout(created) ==
  /\ adb.pc = "child" /\ Bounded(adb.op)
  /\ created => adb.stage = "screencap"
  /\ LET a == [adb EXCEPT !.remote = @ \/ created, !.last = "timeout",
                          !.orphans = IF Kills(adb.op) THEN @ ELSE @ + 1]
     IN adb' = IF a.stage = "kill-server"
               THEN AdbReturn(a, "false")   \* stop_server, line 239
               ELSE AttemptFailed(a)
  /\ UNCHANGED <<scheduler, executor, devices, running_tasks, batch, dtask, caller,
                 trigger, now, roster, config, loaded_config, matching, health, action, hist>>

\* adb_sleep_done with a retry loop that makes one attempt more.
adb_sleep_done_extra ==
  /\ adb.pc = "sleep"
  /\ adb' = IF adb.stage = "start-server" THEN Spawn(adb, "devices")
            ELSE IF adb.attempt <= max_retries
            THEN [adb EXCEPT !.pc = "child", !.child = TRUE, !.attempt = @ + 1]
            ELSE CommandDone(adb, FALSE)
  /\ UNCHANGED <<scheduler, executor, devices, running_tasks, batch, dtask, caller,
                 trigger, now, roster, config, loaded_config, matching, health, action, hist>>

\* asyncio.sleep ends: the next attempt of the retry loop, or the loop is over;
\* after start-server, is_server_running spawns `adb devices`.
adb_sleep_done ==
  /\ adb.pc = "sleep"
  /\ adb' = IF adb.stage = "start-server" THEN Spawn(adb, "devices")
            ELSE IF adb.attempt < max_retries
            THEN [adb EXCEPT !.pc = "child", !.child = TRUE, !.attempt = @ + 1]
            ELSE CommandDone(adb, FALSE)
  /\ UNCHANGED <<scheduler, executor, devices, running_tasks, batch, dtask, caller,
                 trigger, now, roster, config, loaded_config, matching, health, action, hist>>

\* A child that was left running exits by itself.
adb_orphan_exit ==
  /\ adb.orphans > 0
  /\ adb' = [adb EXCEPT !.orphans = @ - 1]
  /\ UNCHANGED <<scheduler, executor, devices, running_tasks, batch, dtask, caller,
                 trigger, now, roster, config, loaded_config, matching, health, action, hist>>

\* The client has the result of the call.
adb_return ==
  /\ adb.pc = "ret"
  /\ adb' = NoAdb
  /\ UNCHANGED <<scheduler, executor, devices, running_tasks, batch, dtask, caller,
                 trigger, now, roster, config, loaded_config, matching, health, action, hist>>

(***************************************************************************)
(* Specification: calls of the bridge client, one at a time                *)
(***************************************************************************)
NextBridge ==
  \/ \E op \in AdbOps, d \in Devices \cup {None} : adb_call(op, d)
  \/ \E r \in {"ok", "fail", "gone"}, created \in BOOLEAN : adb_child_exit(r, created)
  \/ \E created \in BOOLEAN : adb_timeout(created)
  \/ adb_sleep_done
  \/ adb_orphan_exit
  \/ adb_return

SpecBridge == Init /\ [][NextBridge]_vars

(***************************************************************************)
(* Properties                                                              *)
(***************************************************************************)
\* The program points inside execute_config.
InConfig == {"init", "loop", "gate", "step", "handler", "stepEnd", "after", "finalize"}

\* The device tasks that have started and not ended.
ExecutingTasks ==
  {x \in BIds \X Devices : dtask[x[1]][x[2]].st \in InConfig \cup {"ret"}}

\* C1: in every reachable state the number of device tasks executing at the
\* same time, over all batches and all fan-outs, is at most max_threads.
C1_ConcurrencyCap == Cardinality(ExecutingTasks) <= max_threads

\* C2: in every reachable state at most one bridge operation is in flight
\* against each device.
C2_OneBridgeCallPerDevice == \A d \in Devices : Cardinality(BridgeCalls(d)) <= 1

\* C3: in every reachable state at most one execute_config run is in progress
\* for each device.
C3_OneRunPerDevice ==
  \A d \in Devices : Cardinality({b \in BIds : dtask[b][d].st \in InConfig}) <= 1

\* C4: the trigger initiates an automatic run only in a minute that is in
\* run_minutes and whose predecessor is not, and at most one run in such a
\* minute: no two automatic runs are initiated in the same minute.
C4_OneRunPerMinuteEntry ==
  /\ \A t \in hist.auto : Fires(MinuteOf(t))
  /\ \A t1, t2 \in hist.auto : MinuteOf(t1) = MinuteOf(t2) => t1 = t2

\* A batch task or a device task is created by this step.
TaskCreated ==
  \/ \E b \in BIds : batch[b].st # "new" /\ batch'[b].st = "new"
  \/ \E b \in BIds, d \in Devices : dtask[b][d].st # "new" /\ dtask'[b][d].st = "new"

\* C5: when stop() returns running_tasks is empty, and from then until
\* start() is called no batch task and no device task is created.
C5_StoppedAcceptsNothing ==
  [][/\ (~hist.stopped /\ hist'.stopped) => running_tasks' = {}
     /\ (hist.stopped /\ hist'.stopped) => ~TaskCreated]_vars

\* C6: stop() cancels the tasks it then awaits: while stop() awaits the batch
\* tasks, no device task of theirs starts executing a step.
C6_StopCancelsRuns ==
  [][(caller.op = "stop" /\ caller.pc = "gather") =>
       \A b \in caller.wait, d \in Devices :
          dtask'[b][d].st = "handler" => dtask[b][d].st = "handler"]_vars

\* C7: when execute_config has returned, and when a step has ended, the
\* device's action tag is None.
C7_TagEmptyAfterStepAndRun ==
  \A b \in BIds, d \in Devices :
     dtask[b][d].st \in {"stepEnd", "ret"} => devices[d].current_action = None

\* C8: an operation that has set the action tag leaves it None when it
\* returns: an execute_action call on every exit path, and the CLI's
\* take_screenshot.
C8_TaggingOpsClearTag ==
  [][/\ (action'.st = "ret" /\ action'.tagged) =>
          devices'[action'.dev].current_action = None
     /\ (caller.op = "screenshot" /\ caller'.op = "idle") =>
          devices'[caller.dev].current_action = None]_vars

\* C9: a cancelled device run has called finalize with success = false, has
\* left the action tag None, and returns an outcome that is neither the
\* success nor the failure value.
C9_CancelledOutcome ==
  \A b \in BIds, d \in Devices :
     (dtask[b][d].st = "ret" /\ dtask[b][d].end = "cancelled") =>
        /\ dtask[b][d].fin = <<FALSE>>
        /\ devices[d].current_action = None
        /\ dtask[b][d].ret \notin {"true", "false"}

\* C10: a run whose initialize returned false or raised has called no step
\* handler, has called finalize exactly once, with success = false, and
\* returns false.
C10_InitializeFailure ==
  \A b \in BIds, d \in Devices :
     (dtask[b][d].st = "ret" /\ dtask[b][d].end = "init_failed") =>
        /\ dtask[b][d].calls = {}
        /\ dtask[b][d].fin = <<FALSE>>
        /\ dtask[b][d].ret = "false"


\* C11: a run of a script whose steps list is empty has called initialize,
\* no handler, finalize once with success = true, and returns true.
C11_EmptyStepsSucceed ==
  \A b \in BIds, d \in Devices :
     (dtask[b][d].st = "ret" /\ dtask[b][d].end = "empty") =>
        /\ dtask[b][d].init = "true"
        /\ dtask[b][d].calls = {}
        /\ dtask[b][d].fin = <<TRUE>>
        /\ dtask[b][d].ret = "true"

\* The enable mask of script sc names step j with a false value.
Masked(sc, j) ==
  /\ sc.steps[j].name \in DOMAIN sc.enabled_steps
  /\ ~sc.enabled_steps[sc.steps[j].name]

\* C12: when the handler of step i is invoked, it has not been invoked before
\* in this execute_config call, only steps before i have been, and the
\* handler of every enabled step before i has returned true.
C12_StepsInOrder ==
  \A b \in BIds, d \in Devices :
     dtask[b][d].st = "handler" =>
        LET t == dtask[b][d]
        IN /\ t.i \notin t.calls
           /\ \A j \in t.calls : j < t.i
           /\ \A j \in 1..(t.i - 1) : ~Masked(Script(t.cfg), j) => j \in t.oks

C12_StepAfterMaskedReached ==
  \E b \in BIds, d \in Devices :
     /\ dtask[b][d].st = "handler" /\ dtask[b][d].cfg = "M"
     /\ dtask[b][d].i = 3 /\ dtask[b][d].oks = {1} /\ dtask[b][d].skipped = {2}

\* The steps whose handler returned a false value or raised.
FailedSteps(t) == t.calls \ t.oks

\* C13: once a handler has returned a false value or raised, no later step's
\* handler is invoked, the run is past its loop, and it returns false (the
\* exception is not passed on) after calling finalize with success = false.
C13_StepFailureEndsRun ==
  \A b \in BIds, d \in Devices :
     LET t == dtask[b][d]
     IN FailedSteps(t) # {} =>
          /\ \A j \in FailedSteps(t), k \in t.calls : k <= j
          /\ t.st \in {"after", "finalize", "ret"}
          /\ t.st = "ret" => (t.fin = <<FALSE>> /\ t.ret = "false" /\ t.end = "failed")

C13_FailedFirstStepReturned ==
  \E b \in BIds, d \in Devices :
     /\ dtask[b][d].st = "ret" /\ dtask[b][d].cfg = "A"
     /\ dtask[b][d].calls = {1} /\ dtask[b][d].oks = {}

\* C14: the steps skipped are those the mask names with false, no handler of
\* such a step is invoked, a step without an entry is executed, and a skipped
\* step neither fails the run nor stops the steps after it.
C14_EnableMask ==
  \A b \in BIds, d \in Devices :
     LET t == dtask[b][d]
         sc == Script(t.cfg)
     IN t.st \in InConfig \cup {"ret"} =>
          /\ \A j \in t.skipped : Masked(sc, j)
          /\ \A j \in t.calls : ~Masked(sc, j)
          /\ (t.st = "ret" /\ t.end = "success") =>
                /\ t.skipped = {j \in 1..Len(sc.steps) : Masked(sc, j)}
                /\ t.oks = {j \in 1..Len(sc.steps) : ~Masked(sc, j)}
                /\ t.ret = "true"

C14_MaskedRunSucceeded ==
  \E b \in BIds, d \in Devices :
     /\ dtask[b][d].st = "ret" /\ dtask[b][d].cfg = "M" /\ dtask[b][d].end = "success"
     /\ dtask[b][d].skipped = {2} /\ dtask[b][d].oks = {1, 3}

\* C15: a device task goes on with the successor B of script A exactly when
\* A's execute_config has returned true: every earlier call of a task returned
\* true and named the next call's script as its successor, and a call that
\* returned false (failed or cancelled) ends the task.
C15_ChainOnSuccessOnly ==
  [][\A b \in BIds, d \in Devices :
       LET t == dtask[b][d]
           u == dtask'[b][d]
           next == Script(t.cfg).next_config
       IN /\ (t.st = "ret" /\ u # t) =>
               IF t.ret = "true" /\ next # "" /\ validate_config(next)
               THEN u.cfg = next /\ u.chain = Append(t.chain, <<t.cfg, "true">>)
                    /\ u.st \in InConfig \cup {"ret"}
               ELSE u.st = "done"
          /\ (u.chain # t.chain /\ u.chain # <<>>) => t.st = "ret"]_vars

C15_SuccessorRunning ==
  \E b \in BIds, d \in Devices :
     /\ dtask[b][d].cfg = "B" /\ dtask[b][d].st = "handler"
     /\ dtask[b][d].chain = << <<"C", "true">> >>

\* C16: a script whose next_config names no script file validates and runs,
\* and when it has succeeded the device task ends without another call of
\* the executor.
C16_UnknownSuccessor ==
  [][\A b \in BIds, d \in Devices :
       (dtask[b][d].st = "ret" /\ dtask[b][d].cfg = "U" /\ dtask[b][d].ret = "true"
          /\ dtask'[b][d] # dtask[b][d]) =>
            /\ validate_config("U")
            /\ dtask'[b][d].st = "done"
            /\ executor' = executor]_vars

C16_UnknownSuccessorSucceeded ==
  \E b \in BIds, d \in Devices :
     /\ dtask[b][d].st = "ret" /\ dtask[b][d].cfg = "U"
     /\ dtask[b][d].end = "success" /\ dtask[b][d].oks = {1}


\* C17: connect_device for a device whose record is connected changes nothing
\* in the record and returns true at once.
C17_ConnectWhenConnectedIsNoOp ==
  [][\A d \in Devices :
       (device_connected(d) /\ cli_connect(d)) =>
          /\ devices'[d] = devices[d]
          /\ caller' = [IdleCaller EXCEPT !.ret = "true"]]_vars

\* C18: disconnect_device for a device whose record is disconnected returns
\* true and leaves the record as it was, whatever the bridge answers.
C18_DisconnectWhenDisconnectedIsNoOp ==
  [][\A d \in Devices :
       (/\ caller.op = "disconnect" /\ caller.dev = d /\ ~devices[d].connected
        /\ caller'.op = "idle") =>
          /\ devices'[d] = devices[d]
          /\ caller'.ret = "true"]_vars

\* C19: start on a running scheduler changes no state: the trigger task is the
\* one there was and the paused flag keeps its value.
C19_StartIdempotent ==
  [][(scheduler.running /\ start) => UNCHANGED vars]_vars

C19_StartCallableWhilePaused ==
  /\ scheduler.running /\ scheduler.paused
  /\ scheduler.scheduler_task /\ trigger.st \notin {"none", "new"}
  /\ Idle /\ caller.op = "idle"

\* C20: connect_device stamps and counts the attempt before it calls the
\* bridge; a call that returns true leaves the record connected with
\* connection_attempts = 0; a call that returns false leaves it disconnected
\* with the error status.
C20_ConnectTransition ==
  [][\A d \in Devices :
       /\ (device_exists(d) /\ cli_connect(d)) =>
             /\ devices'[d].last_connection_attempt = 1
             /\ devices'[d].connection_attempts =
                   Min(devices[d].connection_attempts + 1, MaxAttempts)
             /\ caller'.pc = "connect"
       /\ (caller.op = "connect" /\ caller.dev = d /\ caller'.op = "idle") =>
             IF caller'.ret = "true"
             THEN /\ devices'[d].connected /\ devices'[d].status = "connected"
                  /\ devices'[d].connection_attempts = 0
             ELSE /\ ~devices'[d].connected
                  /\ devices'[d].status = "connect error"]_vars


\* The health task begins connect_device for device d in this step.
HealthAttempts(d) ==
  /\ health'.st = "connect" /\ Head(health'.queue) = d
  /\ health.st \notin {"connect", "info"} \/ health'.queue # health.queue

\* C21: whenever the health task issues a connect attempt for a device, at
\* least connect_timeout seconds have passed since that device's last
\* connection attempt, whoever made it.
C21_ReconnectSpacing ==
  [][\A d \in Devices :
       HealthAttempts(d) =>
          now - devices[d].last_connection_attempt >= connect_timeout]_vars


\* A DeviceManager operation on d (take_screenshot, input_tap, input_text,
\* restart_app: from the CLI or from execute_action) calls the bridge in this step.
OperationStarts(d) ==
  \/ caller'.op = "screenshot" /\ caller.op # "screenshot" /\ caller'.dev = d
  \/ /\ action'.st = "bridge" /\ action'.dev = d
     /\ action.st # "bridge" \/ action'.stage # action.stage

\* The action tag of d is set to a description in this step.
TagSet(d) ==
  /\ devices'[d].current_action # None
  /\ devices'[d].current_action # devices[d].current_action

\* C22: no DeviceManager operation calls the bridge for a device, and neither
\* an operation nor execute_config nor execute_action sets a device's action
\* tag, while the device's record is not connected, also when the record was
\* marked disconnected after the call's connectivity check.
C22_NoOperationWhileDisconnected ==
  [][\A d \in Devices :
       (OperationStarts(d) \/ TagSet(d)) => devices[d].connected]_vars


\* The run of task (b, d) passes the pause gate of a step in this step.
StepStarts(b, d) == dtask'[b][d].st = "step" /\ dtask[b][d].st # "step"

\* C23: while the scheduler is paused (pause has returned, resume has not been
\* called) no run passes the gate to start a step, and a run that waited at
\* the gate goes on with the step at which it waited.
C23_PauseGate ==
  [][\A b \in BIds, d \in Devices :
       StepStarts(b, d) =>
          /\ ~scheduler.paused
          /\ dtask'[b][d].i = dtask[b][d].i
          /\ dtask'[b][d].cfg = dtask[b][d].cfg]_vars


\* C24: when take_screenshot returns and its screencap has created the remote
\* file, the rm of that file has been issued.
C24_ScreenshotRemovesRemoteFile ==
  (adb.op = "screenshot" /\ adb.pc = "ret" /\ adb.remote) => adb.rm

\* C25: every wait for a spawned child is bounded by a timeout, and no child
\* is left running by a call whose wait for it timed out.
C25_TimeoutKillsChild ==
  /\ adb.pc = "child" => Bounded(adb.op)
  /\ adb.orphans = 0


\* C26: a step of a device task, its failure included, changes no other device
\* task, no batch task and not running_tasks; and a batch task that ends,
\* with no device connected or otherwise, changes no other batch task, none
\* of their device tasks, and not the run_automation call that spawns them.
C26_FailureIsolation ==
  [][/\ \A b \in BIds, d \in Devices :
          (dtask[b][d].st \in RunningPcs \cup {"new"} /\ dtask'[b][d] # dtask[b][d]) =>
             /\ \A c \in BIds, e \in Devices :
                   <<c, e>> # <<b, d>> => dtask'[c][e] = dtask[c][e]
             /\ batch' = batch
             /\ running_tasks' = running_tasks
     /\ \A b \in BIds :
          (batch[b].st \in {"new", "connect", "info", "gather"} /\ batch'[b] = DoneBatch) =>
             /\ \A c \in BIds \ {b} : batch'[c] = batch[c] /\ dtask'[c] = dtask[c]
             /\ running_tasks' = running_tasks \ {b}
             /\ caller' = caller]_vars

C26_FailedTaskBesideLiveSibling ==
  \E b \in BIds :
     /\ config.batch_size = 2
     /\ dtask[b]["d1"].st = "ret" /\ dtask[b]["d1"].end = "failed"
     /\ dtask[b]["d2"].st = "new" /\ ~dtask[b]["d2"].cancel


\* C27: get_device_batches returns consecutive slices of the roster, in roster
\* order: the batches concatenated are the roster, so every device is in
\* exactly one batch; every batch but the last has exactly batch_size devices
\* and the last has between 1 and batch_size.
C27_BatchesPartitionRoster ==
  caller.op = "batches" =>
    LET bs == get_device_batches
        n == Len(bs)
        Before(k) == (k - 1) * batch_size
    IN /\ n = caller.i
       /\ \A k \in 1..n : \A j \in 1..Len(bs[k]) :
             Before(k) + j <= Len(roster) /\ bs[k][j] = roster[Before(k) + j]
       /\ \A p \in 1..Len(roster) :
             Cardinality({kj \in (1..n) \X (1..batch_size) :
                            kj[2] <= Len(bs[kj[1]]) /\ bs[kj[1]][kj[2]] = roster[p]}) = 1
       /\ \A k \in 1..(n - 1) : Len(bs[k]) = batch_size
       /\ n > 0 => Len(bs[n]) \in 1..batch_size

C27_FullBatchThenShortBatch ==
  /\ caller.op = "batches"
  /\ Len(roster) = 3 /\ batch_size = 2
  /\ Len(get_device_batches) = 2
  /\ Len(get_device_batches[2]) = 1


\* C28: in a run with no pause and no stop, a device whose connect succeeded in
\* its batch eventually has execute_config entered for it with the selected
\* script, and a batch task that was spawned eventually finishes and is
\* removed from running_tasks.
ConnectedInBatch(b, d) ==
  /\ batch[b].st \in {"connect", "info", "gather"}
  /\ devices[d].connected
  /\ dtask[b][d].st \in {"none", "new"}
  /\ \E j \in 1..Len(BatchDevices(b)) :
        /\ BatchDevices(b)[j] = d
        /\ j < batch[b].k \/ batch[b].st = "gather"

InExecuteConfig(b, d) ==
  /\ dtask[b][d].st \in RunningPcs
  /\ dtask[b][d].cfg = first_config
  /\ dtask[b][d].chain = <<>>

C29_ValidateRejectsBadSteps ==
  caller.op = "validate" =>
    (caller.ret = "false" <=>
       \/ loaded_config.steps # "list"
       \/ loaded_config.enabled_steps \notin {"missing", "dict"})


\* C30: load_devices creates one record per line that is neither blank nor a
\* comment, each record not connected, with no action tag and zero attempts;
\* a line without a colon gives a device identified by its serial.
C30_OneRecordPerLine ==
  caller.op = "load" =>
    LET file == config.devices_file
    IN /\ Len(roster) = Cardinality({n \in 1..Len(file) :
                                       file[n].kind \notin {"blank", "comment"}})
       /\ \A n \in 1..Len(file) :
             file[n].kind = "serial" => \E j \in 1..Len(roster) : roster[j] = file[n].id
       /\ \A j \in 1..Len(roster) :
             /\ ~devices[roster[j]].connected
             /\ devices[roster[j]].current_action = None
             /\ devices[roster[j]].connection_attempts = 0


\* C31: execute_command and ADBManager.connect_device make at most max_retries
\* attempts; they return success at the first attempt that succeeds and make
\* no attempt after it; execute_command makes no attempt after one whose
\* stderr reports the device as not found; otherwise they return failure
\* after exactly max_retries attempts.
C31_RetryBound ==
  adb.op \in {"exec", "connect"} =>
    /\ adb.attempt <= max_retries
    /\ adb.last \in {"ok", "gone"} => adb.pc = "ret"
    /\ adb.pc = "ret" =>
         /\ adb.ret = "true" <=> adb.last = "ok"
         /\ (adb.ret = "false" /\ adb.last # "gone") => adb.attempt = max_retries

C31_FailedAfterAllAttempts ==
  /\ adb.op = "exec" /\ adb.pc = "ret" /\ adb.ret = "false"
  /\ adb.attempt = max_retries /\ adb.last = "timeout"


\* C32: a wait_image whose poll matches returns success at once; one that has
\* entered its loop returns failure only when its timeout has elapsed, never
\* straight from a poll without a screenshot or without a match; and a poll
\* takes its screenshot only after resume_event was found set.
C32_WaitImagePolling ==
  [][action.type = "wait_image" =>
       /\ action.matched => (action.st = "ret" /\ action.ret)
       /\ (action.st = "ret" /\ action.stage = "wait" /\ ~action.ret) =>
             now - action.start >= WaitTimeout
       /\ (action.st = "shot" /\ action'.st = "ret") => action'.ret
       /\ (action'.polls > action.polls) =>
             IF action.st = "gate" THEN action.woken ELSE executor.resume_event]_vars

C32_TimedOutAfterFailedPolls ==
  /\ action.type = "wait_image" /\ action.st = "ret" /\ ~action.ret
  /\ action.stage = "wait" /\ action.polls >= 2
  /\ now - action.start >= WaitTimeout


\* C33: a run that comes to an enabled step whose action name gives no callable
\* handler fails at that step: the steps before it were executed or skipped,
\* neither that step's nor a later step's handler is invoked, finalize is
\* called with success = false and execute_config returns false.
Unresolved(sc, j) ==
  /\ j \in 1..Len(sc.steps)
  /\ ~Masked(sc, j)
  /\ sc.steps[j].action \notin sc.handlers

C33_MissingHandlerFailsRun ==
  [][\A b \in BIds, d \in Devices :
       LET t == dtask[b][d]
           sc == Script(t.cfg)
       IN /\ (t.st = "step" /\ Unresolved(sc, t.i)) =>
               /\ dtask'[b][d] = [t EXCEPT !.st = "after", !.success = FALSE]
               /\ \A k \in 1..(t.i - 1) : k \in t.oks \cup t.skipped
          /\ (t.st \in {"after", "finalize", "ret"} /\ Unresolved(sc, t.i)
                /\ ~t.success) =>
               /\ \A k \in t.calls : k < t.i
               /\ t.st = "ret" => (t.fin = <<FALSE>> /\ t.ret = "false")]_vars

C33_RunFailedAtSecondStep ==
  \E b \in BIds, d \in Devices :
     /\ dtask[b][d].cfg = "H" /\ dtask[b][d].st = "ret"
     /\ dtask[b][d].i = 2 /\ dtask[b][d].oks = {1} /\ dtask[b][d].calls = {1}
     /\ dtask[b][d].fin = <<FALSE>> /\ dtask[b][d].ret = "false"


\* C34: run_specific_config with a name that does not validate returns false
\* and creates no batch task and no device task; a device task of a fan-out of
\* run_specific_config(name) starts with the script name, one of a fan-out of
\* run_automation with the first script, in discovery order, that validates.
C34_SpecificConfigPinned ==
  [][/\ \A c \in ScriptRequests :
          (run_specific_config(c) /\ ~validate_config(c)) =>
             /\ caller'.op = "idle" /\ caller'.ret = "false"
             /\ UNCHANGED <<running_tasks, batch, dtask>>
     /\ \A b \in BIds, d \in Devices :
          (dtask'[b][d].st = "new" /\ dtask[b][d].st # "new") =>
             /\ dtask'[b][d].cfg = IF batch[b].cfg = None THEN first_config ELSE batch[b].cfg
             /\ batch[b].cfg # None => validate_config(batch[b].cfg)
     /\ \A b \in BIds, d \in Devices :
          (dtask[b][d].st = "new" /\ dtask'[b][d].st \in InConfig \cup {"ret"}) =>
             dtask'[b][d].cfg = dtask[b][d].cfg]_vars

C34_PinnedTaskStarted ==
  \E b \in BIds, d \in Devices :
     /\ batch[b].cfg = "M" /\ first_config # "M"
     /\ dtask[b][d].st = "init" /\ dtask[b][d].cfg = "M" /\ dtask[b][d].chain = <<>>

\* ---------------------------------------------------------------------------
\* ImageProcessor.find_all_templates: best-then-suppress over the score map
\* that cv2.matchTemplate returns.

\* The score map has MapRows rows and MapCols columns; the template is
\* TemplateW wide and TemplateH high.
MapRows == 2
MapCols == 3
TemplateW == 2
TemplateH == 2

\* Score levels: 0 is what a suppressed cell holds, 1 reaches the threshold,
\* 2 is a better match.
Scores == 0..2
match_threshold == 1
max_results == 3

Cells == (0..(MapRows - 1)) \X (0..(MapCols - 1))   \* <<y, x>>, as numpy indexes
ScoreMaps == [Cells -> Scores]

\* The indices that the slice [a:b] selects on an axis of length n: a negative
\* bound counts from the end of the axis, and a bound past an end is clipped.
SliceBound(n, a) == IF a < 0 THEN (IF a + n < 0 THEN 0 ELSE a + n)
                    ELSE (IF a > n THEN n ELSE a)
SliceIndices(n, a, b) == {i \in 0..(n - 1) : SliceBound(n, a) <= i /\ i < SliceBound(n, b)}

\* result[y-h//2:y+h//2+h, x-w//2:x+w//2+w]
Suppressed(y, x) ==
  SliceIndices(MapRows, y - (TemplateH \div 2), y + (TemplateH \div 2) + TemplateH)
    \X SliceIndices(MapCols, x - (TemplateW \div 2), x + (TemplateW \div 2) + TemplateW)

max_val(m) == CHOOSE v \in Scores : (\E c \in Cells : m[c] = v) /\ (\A c \in Cells : m[c] <= v)

\* One turn of the while loop that finds a match: cv2.minMaxLoc gives a best
\* cell (which one among equals is not specified), the match is appended and
\* the slice around it is zeroed.
find_all_iteration ==
  /\ matching.st = "loop"
  /\ Len(matching.found) < max_results
  /\ max_val(matching.result) >= match_threshold
  /\ \E c \in Cells :
       /\ matching.result[c] = max_val(matching.result)
       /\ matching' = [matching EXCEPT
            !.found = Append(@, [x |-> c[2], y |-> c[1], score |-> matching.result[c]]),
            !.result = [d \in Cells |-> IF d \in Suppressed(c[1], c[2]) THEN 0 ELSE @[d]]]
  /\ UNCHANGED <<scheduler, executor, devices, running_tasks, batch, dtask, caller,
                 trigger, now, roster, adb, config, loaded_config, health, action, hist>>

\* The loop ends (count reached max_results, or the best score is below the
\* threshold) and found_templates is returned.
find_all_return ==
  /\ matching.st = "loop"
  /\ \/ Len(matching.found) >= max_results
     \/ max_val(matching.result) < match_threshold
  /\ matching' = [matching EXCEPT !.st = "ret"]
  /\ UNCHANGED <<scheduler, executor, devices, running_tasks, batch, dtask, caller,
                 trigger, now, roster, adb, config, loaded_config, health, action, hist>>

InitTemplates ==
  /\ \E m \in ScoreMaps : matching = [st |-> "loop", result |-> m, found |-> <<>>]
  /\ roster = <<"d1">>
  /\ config = [batch_size |-> 1, devices_file |-> FileOf(<<"d1">>), enabled |-> TRUE]
  /\ loaded_config = WellFormed
  /\ scheduler = [running |-> FALSE, paused |-> FALSE, scheduler_task |-> FALSE]
  /\ executor = [exists |-> FALSE, running |-> FALSE, paused |-> FALSE,
                 resume_event |-> TRUE, running_devices |-> {},
                 running_configs |-> [d \in Devices |-> None]]
  /\ devices = [d \in Devices |->
                  [connected |-> FALSE, status |-> "not connected",
                   current_action |-> None,
                   connection_attempts |-> 0, last_connection_attempt |-> 0]]
  /\ running_tasks = {}
  /\ batch = [b \in BIds |-> NoBatch]
  /\ dtask = [b \in BIds |-> [d \in Devices |-> NoTask]]
  /\ caller = IdleCaller
  /\ trigger = NoTrigger
  /\ now = 0
  /\ health = NoHealth
  /\ action = NoAction
  /\ adb = NoAdb
  /\ hist = [stopped |-> FALSE, auto |-> {}, timed |-> FALSE, stale |-> {}]

NextTemplates == find_all_iteration \/ find_all_return

SpecTemplates == InitTemplates /\ [][NextTemplates]_vars

\* C35: find_all_templates returns at most max_results matches, each with a
\* score of at least the threshold, in non-increasing score order, and never
\* reports the same (x, y) location twice.
C35_SuppressedMatchesAreDistinct ==
  matching.st = "ret" =>
    /\ Len(matching.found) <= max_results
    /\ \A i \in 1..Len(matching.found) : matching.found[i].score >= match_threshold
    /\ \A i \in 1..Len(matching.found), j \in 1..Len(matching.found) :
         i < j => /\ matching.found[i].score >= matching.found[j].score
                  /\ <<matching.found[i].x, matching.found[i].y>>
                       # <<matching.found[j].x, matching.found[j].y>>

(***************************************************************************)
(* Specification: stop() under the scheduling of the event loop.  Every    *)
(* task that is ready runs (first in, first out), a cancelled task ends,   *)
(* a task woken at the gate goes on, and stop() goes on when what it       *)
(* awaits has completed.  The commands of the console get no fairness:     *)
(* nothing in the code issues them.                                        *)
(***************************************************************************)
NextStop ==
  \/ start
  \/ stop
  \/ stop_after_trigger
  \/ stop_after_gather
  \/ pause_automation
  \/ resume_automation
  \/ running_tasks = {} /\ run_automation
  \/ run_wake
  \/ trigger_cancelled
  \/ \E b \in BIds : TaskSteps(b)
  \/ \E b \in BIds, d \in Devices : dev_gate_wake(b, d)

StopScheduling ==
  /\ Scheduling
  /\ SF_vars(trigger_cancelled)
  /\ SF_vars(stop_after_trigger)
  /\ SF_vars(stop_after_gather)
  /\ \A b \in BIds : SF_vars(\E d \in Devices : dev_gate_wake(b, d))

SpecStop == Init /\ [][NextStop]_vars /\ StopScheduling

\* C36: Scheduler.stop() always terminates: once it has been called with the
\* scheduler running, it eventually returns, also when device runs are
\* waiting at the pause gate of the executor.
C36_StopTerminates == (caller.op = "stop") ~> (caller.op = "idle")

\* Scheduler.is_automation_paused (scheduler.py 573-581).
is_automation_paused == scheduler.paused /\ executor.exists /\ executor.paused

\* C37: the two pause flags stay in step: scheduler.paused is true exactly
\* when the gate of the executor is closed (executor.paused, resume_event
\* cleared), so is_automation_paused() is true whenever run_automation would
\* refuse as paused.
C37_PauseFlagsInStep ==
  /\ scheduler.paused <=> executor.paused
  /\ executor.paused <=> ~executor.resume_event
  /\ (scheduler.running /\ scheduler.paused) => is_automation_paused

\* The run of device d in batch b has left the step loop with steps remaining.
Interrupted(b, d) ==
  /\ dtask[b][d].st \in {"after", "finalize", "ret"}
  /\ dtask[b][d].cfg # None
  /\ dtask[b][d].i <= Len(Script(dtask[b][d].cfg).steps)

\* C38: a run that is interrupted never reports success: when the step loop
\* is left with steps remaining, finalize is not given success = true,
\* execute_config does not return true, and the scheduler does not chain to
\* next_config.
C38_InterruptedRunNotSuccess ==
  \A b \in BIds, d \in Devices :
    Interrupted(b, d) =>
      /\ dtask[b][d].st \in {"after", "finalize"} => ~dtask[b][d].success
      /\ dtask[b][d].st = "ret" => dtask[b][d].ret # "true"

\* A connect_device call completes with success (get_device_info has returned).
ConnectCompletes == health_info_done \/ cli_info_done \/ \E b \in BIds : batch_info_done(b)

\* C39: the connected flag reflects the most recently completed connect or
\* disconnect: a record that was marked disconnected (disconnect_device, or
\* the health sweep) while a connect on it was in flight, with no connect
\* issued since, does not become connected when that connect completes.
C39_StaleConnectKeepsDisconnected ==
  [][\A d \in Devices :
       (d \in hist.stale /\ ~devices[d].connected /\ ConnectCompletes)
         => ~devices'[d].connected]_vars

(***************************************************************************)
(* Specification: ADBAutomation.start with the trigger enabled or disabled in the    *)
(* configuration, then run_automation (run_on_start, or the CLI's `start`) *)
(***************************************************************************)
\* main.py 151-154: ADBAutomation.start calls Scheduler.start only when
\* scheduler.enabled is set; nothing else in the program calls it.
app_start ==
  /\ enabled
  /\ ~executor.exists
  /\ start

InitDisabled ==
  \E en \in BOOLEAN :
    InitApp(en, FileOf(<<"d1", "d2">>), <<"d1", "d2">>, 1, 0, FALSE, NoHealth, WellFormed)

\* run_automation is called after ADBAutomation.start has passed its scheduler step.
NextDisabled ==
  \/ app_start
  \/ (enabled => executor.exists) /\ running_tasks = {} /\ run_automation
  \/ run_wake
  \/ \E b \in BIds : TaskSteps(b)

SpecDisabled == InitDisabled /\ [][NextDisabled]_vars

\* C40: with scheduler.enabled = false, run_automation (the startup run and
\* the CLI's `start`) still initiates a fan-out when the roster and the
\* script store are non-empty, as it does when the trigger is enabled.
C40_DisabledTriggerStillRuns ==
  [][(run_automation /\ ~enabled /\ NumBatches > 0 /\ Len(load_all_configs) > 0)
       => (caller'.op = "run" /\ running_tasks' # {})]_vars

====
